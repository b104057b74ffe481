---------------------------- MODULE MCExecOutput ----------------------------
(* Model-checking instance of ExecOutput: one reader, because readers meet *)
(* only in the log and the channel, which they never write.                *)
EXTENDS ExecOutput

CONSTANT r1

OneReader == {r1}

\* The default options, and a reader that takes no loss and no reconnect, from
\* the start or from an offset the output may not have reached yet.
ReaderOptions ==
  {[offset |-> 0, reconnect |-> TRUE, errorOnGap |-> FALSE]}
    \cup [offset : {0, 2}, reconnect : {FALSE}, errorOnGap : {TRUE}]

============================================================================
