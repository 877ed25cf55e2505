SPECIFICATION SysSpec
CONSTANTS
  MayFail = {"audio_board_init", "esp_periph_set_init", "audio_hal_ctrl_codec", "audio_pipeline_init", "init_reader", "init_writer", "register_reader", "register_writer", "audio_pipeline_link", "audio_event_iface_init", "audio_pipeline_set_listener", "audio_pipeline_run"}
  EvtQueueSize = 1
  MaxSeconds = 2
  BufferLen = 1
  DmaBufLen = 2
  RingBufferSize = 1
  MaxFrames = 6
INVARIANTS TypeOK WriterIsFed EventsAreRouted PanicIsExplained SoundMeansStarted
PROPERTIES StartupSettles MicrophoneIsHeard
CHECK_DEADLOCK FALSE
