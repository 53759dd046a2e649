------------------------------ MODULE MCFrontEnds ------------------------------
\* Two jobs, a conversation, a request and a pipeline, three of which come.
EXTENDS FrontEnds

MCCaller == Job \cup Request \cup {Chat, Pipe}
=============================================================================
