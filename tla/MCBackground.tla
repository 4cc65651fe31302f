---------------------------- MODULE MCBackground ----------------------------
(***************************************************************************)
(* Safety of the background work, on small instances side by side.         *)
(*                                                                         *)
(*   photo      a photograph promoted and attached by two requests and     *)
(*              swept by two retention sweeps                              *)
(*   gate       two attempts to move a makerspace to another deployment    *)
(*   render     certificates, with processes that die or do not            *)
(*   checkin    scans repeated by devices and stations                     *)
(*   reset      two requests for a new password, two drains, a password    *)
(*              changed by other ways meanwhile                            *)
(*   mail       one e-mail in the outbox                                   *)
(*   due        overlapping reminder runs                                  *)
(*   exports    two exports, redelivered, swept and purged                 *)
(*   archiving  archives of the deployment after one that exists, asked    *)
(*              for, built by a nightly run, expired and purged             *)
(*   auditing   the audit log of one scope, its key rotated, its database   *)
(*              restored                                                   *)
(***************************************************************************)
EXTENDS Background, TLC

CONSTANTS c1, c2, w1, w2, w3   \* archives, processes

\* Processes are interchangeable, and so are callers.
Symmetry == Permutations({w1, w2}) \cup Permutations({c1, c2})
=============================================================================
