---------------------------- MODULE MCTransport -----------------------------
(* The raw peers of the Transport run. *)
EXTENDS Transport

\* A batch before a damaged frame, a frame after Bye, a frame only a server
\* sends, and one with an unreadable header.
Scripts == {<<"Batch", "BadChecksum">>, <<"Bye", "Batch">>, <<"Welcome">>, <<"BadHeader">>}
=============================================================================
