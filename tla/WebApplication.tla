--------------------------- MODULE WebApplication ---------------------------
(***************************************************************************)
(* The two pages of the front end that are modelled here, in one           *)
(* application: the router (apps/app/src/App.tsx) mounts one at a time,    *)
(* and what the one does leaves the other alone.                           *)
(***************************************************************************)
EXTENDS FindingsPage, InfrastructureMap

VARIABLE mounted   \* the page that is mounted

webVars == <<mounted, vars, mapVars>>

\* A page that is not mounted is where it begins, always at the same state.
MapAtRest ==
  /\ accountId = CHOOSE a \in MapAccounts : TRUE
  /\ prefs = DefaultPrefs
  /\ \A a \in MapAccounts : estate[a] = CHOOSE e \in Estates[a] : TRUE
FindingsAtRest ==
  /\ history = <<CHOOSE s \in Starts : TRUE>>
  /\ account = CHOOSE a \in StartsOn : TRUE
  /\ settings = CHOOSE s \in OrgSettings : TRUE
  /\ pageSize = CHOOSE n \in PageSizes : TRUE
  /\ left = CHOOSE l \in Limits : TRUE

WebInit ==
  /\ Init /\ MapInit
  /\ \/ mounted = "findings" /\ MapAtRest
     \/ mounted = "map" /\ FindingsAtRest

WebNext ==
  \/ mounted = "findings" /\ Next /\ UNCHANGED <<mounted, mapVars>>
  \/ mounted = "map" /\ MapNext /\ UNCHANGED <<mounted, vars>>

WebSpec == WebInit /\ [][WebNext]_webVars
=============================================================================
