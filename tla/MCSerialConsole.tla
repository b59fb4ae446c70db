--------------------------- MODULE MCSerialConsole ---------------------------
(* One kind of each sort: shared marker with recovery (guest_json), shared  *)
(* without (wait_process_handoff, _read_child_pid), own marker with recovery *)
(* (_run_guest_command, _read_status_value).                                *)
EXTENDS SerialConsole

MCKinds == {"probe", "handoff", "child", "command"}

=============================================================================
