---------------------------- MODULE NetworkPaths ----------------------------
(***************************************************************************)
(* Proxy settings and network paths without their tunnels                  *)
(* (InterfaceInventoryMitigation.c).  A name or a scope key is "plain" or  *)
(* holds a token of a "tunnel".                                            *)
(***************************************************************************)
EXTENDS Sequences, SequencesExt, ShapedValues

(***************************************************************************)
(* Proxies.  Settings may have no dictionary of scopes ("scoped").         *)
(* "failed" are the allocations that fail: the copy of the scopes, their   *)
(* keys, the lowercase copy of a key, the copy of the settings.  The       *)
(* answer counts the references left on the three dictionaries.            *)
(***************************************************************************)
Scopes == {"plain", "tunnel"}
Allocations == {"scopes", "keys", "lowercase", "settings"}
Settings == {settings \in [scoped : BOOLEAN, scopes : SUBSET Scopes] :
               settings.scoped \/ settings.scopes = {}}

(* LHInterfaceInventoryStringContainsSensitiveToken of a tunnel's key. *)
Recognized(failed) == IF "lowercase" \in failed THEN {} ELSE {"tunnel"}

(* CFRetain(original), on top of the reference it came with. *)
Unfiltered(settings, scopeReferences) ==
  [scopes |-> settings.scopes, original |-> 1 + 1, filteredScoped |-> scopeReferences, filtered |-> 0]

MutantFiltered(settings, failed) ==
  [scopes |-> settings.scopes \ Recognized(failed), original |-> 1, filteredScoped |-> 1 + 1, filtered |-> 1]

(* The new settings hold the new scopes, and the filter releases its own.  *)
Filtered(settings, failed) ==
  [scopes |-> settings.scopes \ Recognized(failed), original |-> 1, filteredScoped |-> 1 + 1 - 1, filtered |-> 1]

FilterScopedProxySettings(settings, failed) ==
  IF ~settings.scoped \/ "scopes" \in failed THEN Unfiltered(settings, 0)
  ELSE IF \/ settings.scopes # {} /\ "keys" \in failed
          \/ settings.scopes \cap Recognized(failed) = {}
          \/ "settings" \in failed
       THEN Unfiltered(settings, 1 - 1)
       ELSE Filtered(settings, failed)

(* What the three proxy hooks return: the original is released.            *)
CopyFilteredProxySettings(settings, failed) ==
  LET answer == FilterScopedProxySettings(settings, failed)
  IN [answer EXCEPT !.original = @ - 1]

-----------------------------------------------------------------------------
(***************************************************************************)
(* Network.framework.  "originals" are the hooks that know the function    *)
(* they replace, "installed" those the app's calls reach: an original is   *)
(* stored before the import is rebound, which may fail, so one may be      *)
(* there without the hook and never the hook without it.  A call that      *)
(* reaches no hook is answered by the system.                              *)
(***************************************************************************)
Types == {"wifi", "cellular", "wired", "other", "loopback"}
Interfaces == [name : {"plain", "tunnel"}, type : Types]
PathHooks == {"get_name", "get_type", "uses_interface_type", "enumerate_interfaces"}

PathTypeLooksSensitive(type) == type \in {"other", "loopback"}

CommonNetworkInterfaceName(type) == IF type = "cellular" THEN "pdp_ip0" ELSE "en0"

GetName(interface, originals) ==
  LET type == IF "get_type" \in originals THEN interface.type ELSE "other"
  IN IF "get_name" \notin originals THEN "en0"
     ELSE IF interface.name = "tunnel" \/ PathTypeLooksSensitive(type)
          THEN CommonNetworkInterfaceName(type) ELSE interface.name

GetType(interface, originals) ==
  IF "get_type" \notin originals \/ PathTypeLooksSensitive(interface.type)
  THEN "wifi" ELSE interface.type

UsesInterfaceType(path, type, originals) ==
  /\ ~PathTypeLooksSensitive(type)
  /\ "uses_interface_type" \in originals
  /\ \E i \in DOMAIN path : path[i].type = type

Known(interface, originals) ==
  "get_type" \in originals /\ PathTypeLooksSensitive(interface.type)

AskName(interface, installed, originals) ==
  IF "get_name" \in installed THEN GetName(interface, originals) ELSE interface.name

AskType(interface, installed, originals) ==
  IF "get_type" \in installed THEN GetType(interface, originals) ELSE interface.type

AskUses(path, type, installed, originals) ==
  IF "uses_interface_type" \in installed THEN UsesInterfaceType(path, type, originals)
  ELSE \E i \in DOMAIN path : path[i].type = type

MutantOffer(seen, interface, wanted, originals) ==
  LET given == Append(seen.given, interface)
  IN IF ~seen.going THEN seen
     ELSE IF Known(interface, originals) THEN [seen EXCEPT !.going = FALSE]
     ELSE [given |-> given, going |-> Len(given) < wanted]

(* The block the hook passes on: a hidden interface is skipped, and for    *)
(* another the app's own block decides whether to go on, here until it has *)
(* all it "wanted".                                                        *)
Offer(seen, interface, wanted, originals) ==
  LET given == Append(seen.given, interface)
  IN IF ~seen.going \/ Known(interface, originals) THEN seen
     ELSE [given |-> given, going |-> Len(given) < wanted]

EnumerateInterfaces(path, wanted, originals) ==
  LET step(seen, interface) == Offer(seen, interface, wanted, originals)
  IN IF "enumerate_interfaces" \notin originals THEN << >>
     ELSE FoldLeft(step, [given |-> << >>, going |-> TRUE], path).given

Enumerated(path, wanted, installed, originals) ==
  IF "enumerate_interfaces" \in installed THEN EnumerateInterfaces(path, wanted, originals)
  ELSE SubSeq(path, 1, Least(wanted, Len(path)))
=============================================================================
