--------------------------- MODULE MCReplyEnvelope ---------------------------
EXTENDS ReplyEnvelope
==============================================================================
