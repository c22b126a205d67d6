------------------------ MODULE MCBackgroundWorker ------------------------
(* Two workers: one that runs periodically and is disposed of when it is  *)
(* stopped, and an actor.                                                 *)
EXTENDS BackgroundWorkerInv, TLC

CONSTANTS periodic, actor

MCWorker == {periodic, actor}
MCInterval == periodic :> 1 @@ actor :> 2
MCMaxCount == periodic :> 0 @@ actor :> 1
===========================================================================
