-------------------------- MODULE MCDownloadManager --------------------------
(* Instances of DownloadManager for TLC. *)
EXTENDS DownloadManager

\* Three versions, each longer than the one before.
MCGrowing == <<2, 3, 4>>

\* One version, which the first download may come too early for.
MCSingle == <<2>>
=============================================================================
