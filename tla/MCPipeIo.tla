------------------------------- MODULE MCPipeIo --------------------------------
(***************************************************************************)
(* An instance of PipeIo for TLC: messages of an op code and arguments,    *)
(* and answers with a body that PIPE_BUF does not hold.                    *)
(***************************************************************************)
EXTENDS PipeIo

SmallMessages ==
  [k \in Kinds |-> IF k = "answer" THEN { <<1>>, <<1, 3, 6, 8>> } ELSE { <<1>>, <<1, 3, 4>> }]
===============================================================================
