---------------------------- MODULE MCS3Service ----------------------------
(* S3Service for TLC. *)
EXTENDS S3Service

CONSTANTS v1, v2

TwoImages == {v1, v2}
=============================================================================
