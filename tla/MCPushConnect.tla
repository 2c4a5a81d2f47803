---------------------------- MODULE MCPushConnect ----------------------------
(* Model-checking instance of PushConnect. Languages are added to a call that  *)
(* the client may cancel and the connection queue evict; in other behaviours   *)
(* all the other events may occur together.                                    *)
EXTENDS PushConnect

MCSurroundings == {{"languages", "cancel"}, {"cancel", "expire", "stop", "denied"}}
=============================================================================
