------------------------------ MODULE MCConsole ------------------------------
(***************************************************************************)
(* The console with all its screens, for TLC.                              *)
(***************************************************************************)
EXTENDS Console, Catalogue

\* The theorems about any catalogue that fits apply to this one.
ASSUME FitAssumption == RefreshedOrListed /\ OfferedOrListed

\* No call is listed for nothing: each is refused to somebody it is offered to.
ASSUME TightAssumption ==
    /\ \A c \in Overreach : \E p \in Pairs : p.write.call = c /\
          \E r \in TemplateRights(p) : Misfit(p, r)
    /\ \A c \in CustomOverreach : \E p \in Pairs : p.write.call = c /\
          \E r \in Rights(p) : Misfit(p, r)
=============================================================================
