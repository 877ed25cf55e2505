---------------------------- MODULE MCMonitorPath ----------------------------
(* MonitorPath for TLC: buffer_len half a DMA buffer, as 450 : 900, and a   *)
(* ring whose size is no multiple of buffer_len, as 8192 % 900 # 0.         *)
EXTENDS MonitorPath
=============================================================================
