-------------------------- MODULE MCDownloadWorker --------------------------
(* Instances of DownloadWorker for TLC.                                    *)
EXTENDS DownloadWorker

CONSTANTS j1, j2, h1, h2

AllMagnets == [j \in Jobs |-> "magnet"]
AllUsenet == [j \in Jobs |-> "usenet"]
MagnetAndHash == [j \in Jobs |-> IF j = j1 THEN "magnet" ELSE "hash"]
EmptyAndUsenet == [j \in Jobs |-> IF j = j1 THEN "empty" ELSE "usenet"]

OwnHash == [j \in Jobs |-> IF j = j1 THEN h1 ELSE h2]
SharedHash == [j \in Jobs |-> h1]
=============================================================================
