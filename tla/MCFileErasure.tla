----------------------------- MODULE MCFileErasure -----------------------------
(* Instances of FileErasure: one url two workspaces hold, one that names no file. *)
EXTENDS FileErasure, TLC

CONSTANTS a, b, f1, f2

SharedUrl == {[org |-> a, file |-> f1, kind |-> "document"], [org |-> b, file |-> f1, kind |-> "photo"],
              [org |-> b, file |-> f2, kind |-> "logo"]}
OddUrl == {f2}
===============================================================================
