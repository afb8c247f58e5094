----------------------------- MODULE MCPaperEtl -----------------------------
(* A small instance of PaperEtl for TLC.                                   *)
EXTENDS PaperEtl, TLC

CONSTANTS a1, a2

\* The paper of title 3 has title 1 in Scopus.  Title 4 comes out later on both
\* profiles, which makes that of a2 one longer than the limit of the instance.
SharedProfile == (a1 :> {2, 4}) @@ (a2 :> {2, 3, 4})
OnePaper == (1 :> 1) @@ (2 :> 2) @@ (3 :> 1) @@ (4 :> 4)
=============================================================================
