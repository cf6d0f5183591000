----------------------------- MODULE MCDownload -----------------------------
(* Three bytes in two parts, the second with a rest, and two bytes in one part
   with a kill and another run. *)
EXTENDS Download
MCTasks == {<<3, 2, 0>>, <<2, 1, 1>>}
=============================================================================
