--------------------------- MODULE MCMailService ---------------------------
(***************************************************************************)
(* Two small mailboxes.  In MCMailStorage three deliveries race for two    *)
(* places, one of them too large to be stored next to the others, and the  *)
(* UIDs run out; in MCMailWaits two waits of which one may be pending meet *)
(* two deliveries.                                                         *)
(***************************************************************************)
EXTENDS MailService, TLC

CONSTANTS d1, d2, d3, w1, w2, alice, bob, newsletter, seen

MCKind == [d \in Deliveries |->
             CASE d = d1 -> alice [] d = d2 -> newsletter [] OTHER -> bob]
MCRawSize == alice :> 1 @@ bob :> 1 @@ newsletter :> 2
MCStoredSize == alice :> 1 @@ bob :> 2 @@ newsletter :> 3
MCFilters == {{alice, bob}}

NewDataSet == [emails |-> {}, lastId |-> 0, uidNext |-> 1, subscribed |-> TRUE]

\* Filled under higher limits, with a gap left by a deletion.
OlderDataSet ==
  [emails |-> {[id |-> 1, uid |-> 1, kind |-> alice, flags |-> {}],
               [id |-> 3, uid |-> 3, kind |-> newsletter, flags |-> {}]},
   lastId |-> 3, uidNext |-> 4, subscribed |-> FALSE]

\* A cursor of an earlier session, and a message no one has read yet.
UnreadDataSet ==
  [emails |-> {[id |-> 2, uid |-> 2, kind |-> bob, flags |-> {}]},
   lastId |-> 2, uidNext |-> 3, subscribed |-> TRUE]

StorageStores == {NewDataSet, OlderDataSet}
WaitStores == {UnreadDataSet}
=============================================================================
