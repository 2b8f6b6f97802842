--------------------------- MODULE MCDomainServices ---------------------------
(* Instance of DomainServices: two services compete for two names.          *)
EXTENDS DomainServices, TLC

MCURL == {[form |-> "absolute", scheme |-> s] : s \in {"https", "http"}}
Symmetry == Permutations(ServiceID) \cup Permutations(DsRequest) \cup Permutations(ItemName)
=============================================================================
