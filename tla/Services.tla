------------------------------ MODULE Services ------------------------------
(***************************************************************************)
(* The services of the API that share no state and the web client's cache  *)
(* of their answers, each in a module of its own.  Nothing one of them     *)
(* does shows in another, so an interleaving of two is two behaviours side *)
(* by side: a behaviour follows one (part).                                *)
(***************************************************************************)
EXTENDS Registry, Listing, Records, Notices, Seeds, WebQueries

VARIABLE part

vars == <<part, regVars, listVars, recVars, noticeVars, seedVars, webVars>>

Parts == {"references", "lists", "records", "notices", "seeds", "web"}

Init ==
  /\ part \in Parts
  /\ RegistryInit /\ ListingInit /\ RecordsInit /\ NoticesInit /\ SeedsInit /\ WebInit

Next ==
  /\ UNCHANGED part
  /\ \/ /\ part = "references"
        /\ RegistryNext /\ UNCHANGED <<listVars, recVars, noticeVars, seedVars, webVars>>
     \/ /\ part = "lists"
        /\ ListingNext /\ UNCHANGED <<regVars, recVars, noticeVars, seedVars, webVars>>
     \/ /\ part = "records"
        /\ RecordsNext /\ UNCHANGED <<regVars, listVars, noticeVars, seedVars, webVars>>
     \/ /\ part = "notices"
        /\ NoticesNext /\ UNCHANGED <<regVars, listVars, recVars, seedVars, webVars>>
     \/ /\ part = "seeds"
        /\ SeedsNext /\ UNCHANGED <<regVars, listVars, recVars, noticeVars, webVars>>
     \/ /\ part = "web"
        /\ WebNext /\ UNCHANGED <<regVars, listVars, recVars, noticeVars, seedVars>>

Spec == Init /\ [][Next]_vars

-----------------------------------------------------------------------------
\* The type invariants of the services.
TypeOK ==
  /\ part \in Parts
  /\ RegistryTypeOK /\ ListingTypeOK /\ RecordsTypeOK /\ NoticesTypeOK /\ SeedsTypeOK
  /\ WebTypeOK
=============================================================================
