---------------------------- MODULE MCIngestion ----------------------------
(* Small instances of Ingestion for TLC.                                    *)
EXTENDS Ingestion, TLC
CONSTANTS s1, s2, h1, h2, w1, w2

\* Two submissions of the same content.
Twins == s1 :> h1 @@ s2 :> h1
=============================================================================
