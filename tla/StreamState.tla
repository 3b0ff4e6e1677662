----------------------------- MODULE StreamState ----------------------------
(***************************************************************************)
(* wire/stream_state.go: the state of one end of a stream, a code and the  *)
(* error left by a RESET_STREAM frame from the peer ("none" is nil).  The  *)
(* four checks are TRUE when the Go method returns a non-nil error.        *)
(***************************************************************************)

Codes == {"open", "halfClosedLocal", "halfClosedRemote", "closed"}

CloseLocalForgetsRemote(code) == "halfClosedLocal"

\* streamState.CloseLocal: the new code, from the code read by the switch.
CloseLocal(code) ==
  IF code \in {"open", "halfClosedLocal"} THEN "halfClosedLocal" ELSE "closed"

\* streamState.CloseRemote
CloseRemote(code) ==
  IF code \in {"open", "halfClosedRemote"} THEN "halfClosedRemote" ELSE "closed"

RecvResetStreamLax(code, err) == FALSE

\* A RESET_STREAM frame is refused by a closed or already reset stream.
RecvResetStream(code, err) == err # "none" \/ code = "closed"

\* A DATA frame is also refused once the peer ended its half.
RecvData(code, err) == err # "none" \/ code \in {"closed", "halfClosedRemote"}

\* Sending is refused once this end closed its half, a RESET_STREAM included.
SendData(code, err) == err # "none" \/ code \in {"closed", "halfClosedLocal"}
SendResetStream(code, err) == SendData(code, err)
=============================================================================
