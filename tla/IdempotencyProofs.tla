--------------------------- MODULE IdempotencyProofs ---------------------------
(***************************************************************************)
(* The idempotency records, for any set of keys, any size of basket and    *)
(* any number of requests, failures and crashes: the types, that a replay  *)
(* tells the truth, that READY is reconciled, and that the records keep    *)
(* the promise of OncePerKey.                                              *)
(***************************************************************************)
EXTENDS Idempotency, SequenceTheorems, TLAPS

USE DEF GateFree, Works, Fails

Entries == [key : Keys, kind : Kinds, ref : Nat]

-------------------------------------------------------------------------------
(* Who owns a key.                                                            *)

\* A row without a kind is no row, and Kite took nothing with its key.
FreeUnused ==
    \A k \in Keys : rows[k].kind = "none" =>
        rows[k] = NoRow /\ \A i \in DOMAIN taken : taken[i].key # k

\* A result is the ID of what Kite took with the key.
ResultsNameTaken ==
    \A k \in Keys : rows[k].kind = "result" =>
        rows[k].ref \in DOMAIN taken /\ taken[rows[k].ref].key = k

\* The request between its reservation and its completion owns the row of its key,
\* and what Kite took with it so far is nothing, or what it is about to record.
GateHolderOwns ==
    /\ request.at \in {"submit", "complete"} => request.kind # "basket" /\ Row = Reference
    /\ request.at = "submit" => \A i \in DOMAIN taken : taken[i].key # request.key
    /\ request.at = "complete" =>
          request.id \in DOMAIN taken /\ taken[request.id].key = request.key

\* A deployment under way owns the row of its key.
DeploymentsOwn ==
    \A b \in baskets : rows[b.key] = [kind |-> "basket", ref |-> b.ref]

\* Whatever Kite took, it took for the owner of its key: a leg for the one basket that
\* reserved it, and anything else alone.
TakenByOwner ==
    \A i \in DOMAIN taken :
        IF rows[taken[i].key].kind = "basket"
        THEN taken[i].kind = "basket" /\ taken[i].ref = rows[taken[i].key].ref
        ELSE \A j \in DOMAIN taken : taken[j].key = taken[i].key => j = i

OwnerInv ==
    FreeUnused /\ ResultsNameTaken /\ GateHolderOwns /\ DeploymentsOwn /\ TakenByOwner

\* With one key Kite takes one order or modification, or the legs of one deployment.
OneUse ==
    \A i, j \in DOMAIN taken :
        taken[i].key = taken[j].key =>
            i = j \/ (taken[i].kind = "basket" /\ taken[j].kind = "basket" /\ taken[i].ref = taken[j].ref)

-------------------------------------------------------------------------------
(* Sequences and rows.                                                        *)

\* What is appended comes last, and all before it stays in its place.
LEMMA AppendFacts ==
    ASSUME NEW s \in Seq(Entries), NEW e \in Entries, NEW t, t = Append(s, e)
    PROVE  /\ t \in Seq(Entries)
           /\ Len(t) = Len(s) + 1 /\ Len(t) \in Nat /\ Len(t) \notin DOMAIN s
           /\ DOMAIN t = DOMAIN s \cup {Len(t)}
           /\ t[Len(t)] = e /\ \A i \in DOMAIN s : t[i] = s[i]
<1>1. t \in Seq(Entries) /\ Len(t) = Len(s) + 1 /\ Len(s) \in Nat
    BY AppendProperties, LenProperties
<1>2. DOMAIN t = 1 .. Len(t) /\ DOMAIN s = 1 .. Len(s)
    BY <1>1, LenProperties
<1>3. t[Len(t)] = e /\ \A i \in DOMAIN s : t[i] = s[i]
    BY <1>1, <1>2, AppendProperties
<1>q. QED BY <1>1, <1>2, <1>3

\* Whatever Kite took has a key.
LEMMA TakenTypes ==
    ASSUME TypeOK
    PROVE  \A i \in DOMAIN taken : taken[i] \in Entries /\ taken[i].key \in Keys
<1>1. taken \in Seq(Entries)
    BY DEF TypeOK, Entries
<1>2. \A i \in DOMAIN taken : taken[i] \in Entries
    BY <1>1, ElementOfSeq, LenProperties
<1>q. QED BY <1>2 DEF Entries

\* A request between its steps has a key, and what it reserves is a row.
LEMMA RequestTypes ==
    ASSUME TypeOK, request.at # "none"
    PROVE  /\ request.key \in Keys /\ request.kind \in Kinds /\ request.ref \in Nat
           /\ request.id \in Nat
           /\ Row \in Rows /\ Reference \in Rows
           /\ Reference.kind \in {"pending-order", "pending-modify", "basket"}
           /\ Reference.kind = "basket" <=> request.kind = "basket"
    BY DEF TypeOK, Row, Reference, Rows, Kinds

\* Answers keep their type.
LEMMA AnswerTypes ==
    ASSUME TypeOK, request.at # "none", NEW row \in Rows,
           NEW says \in {"submitted", "replayed", "unconfirmed", "error"}, Answer(says, row)
    PROVE  answers' \subseteq [key : Keys, kind : Kinds, row : Rows,
                               says : {"submitted", "replayed", "unconfirmed", "error"}]
    BY RequestTypes DEF TypeOK, Answer

-------------------------------------------------------------------------------
(* Types.                                                                     *)

\* A replay and an error answer, and give the gate back.
LEMMA ReturnTypes ==
    ASSUME TypeOK, request.at # "none", Replay \/ Error
    PROVE  /\ request' = NoRequest
           /\ answers' \subseteq [key : Keys, kind : Kinds, row : Rows,
                                  says : {"submitted", "replayed", "unconfirmed", "error"}]
<1>1. NoRow \in Rows /\ Row \in Rows
    BY RequestTypes DEF NoRow, Rows
<1>q. QED BY <1>1, AnswerTypes DEF Replay, Error, Return

\* Reserving and completing write rows.
LEMMA RowTypes ==
    ASSUME TypeOK, request.at # "none"
    PROVE  /\ Insert => rows' \in [Keys -> Rows]
           /\ Update(request.id) => rows' \in [Keys -> Rows]
<1>1. \A id \in Nat : [kind |-> "result", ref |-> id] \in Rows
    BY DEF Rows
<1>2. request.key \in Keys /\ request.id \in Nat /\ Reference \in Rows
    BY RequestTypes
<1>q. QED BY <1>1, <1>2 DEF TypeOK, Insert, Update

\* What a leg may do: nothing to the rows, and one more order for its basket.
LEMMA LegEffect ==
    ASSUME TypeOK, NEW b \in baskets, Leg(b)
    PROVE  /\ request.at = "none" /\ runtime = "basket" /\ runtime' \in {"basket", "down"}
           /\ UNCHANGED <<rows, request, operation, answers, requests>> /\ faults' \in Nat
           /\ \/ Taken(b.key, "basket", b.ref) /\ unread' \subseteq unread \cup {Len(taken')}
              \/ UNCHANGED <<taken, unread>>
           /\ \E n \in Nat :
                 baskets' = (baskets \ {b}) \cup {[key |-> b.key, ref |-> b.ref, left |-> n]}
<1>1. b = [key |-> b.key, ref |-> b.ref, left |-> b.left] /\ b.left \in Nat
    BY DEF TypeOK
<1>2. /\ request.at = "none" /\ runtime = "basket" /\ (runtime' = runtime \/ runtime' = "down")
      /\ UNCHANGED <<rows, request, operation, answers, requests>>
      /\ faults' = faults \/ faults' = faults + 1
      /\ \/ Taken(b.key, "basket", b.ref)
            /\ (unread' = unread \/ unread' = unread \cup {Len(taken')})
         \/ UNCHANGED <<taken, unread>>
    BY Zenon DEF Leg
<1>3. \E n \in Nat :
          baskets' = (baskets \ {b}) \cup {[key |-> b.key, ref |-> b.ref, left |-> n]}
  <2>1. CASE b.left > 0 /\ baskets' = (baskets \ {b}) \cup {[b EXCEPT !.left = @ - 1]}
    <3>1. [b EXCEPT !.left = @ - 1] = [key |-> b.key, ref |-> b.ref, left |-> b.left - 1]
        BY <1>1
    <3>2. b.left - 1 \in Nat
        BY <1>1, <2>1
    <3>q. QED BY <2>1, <3>1, <3>2, Zenon
  <2>2. CASE baskets' = (baskets \ {b}) \cup {[b EXCEPT !.left = 0]}
    <3>1. [b EXCEPT !.left = 0] = [key |-> b.key, ref |-> b.ref, left |-> 0]
        BY <1>1
    <3>q. QED BY <2>2, <3>1
  <2>q. QED BY <2>1, <2>2, Zenon DEF Leg
<1>4. runtime' \in {"basket", "down"} /\ faults' \in Nat
    BY <1>2 DEF TypeOK
<1>5. unread' = unread \/ unread' = unread \cup {Len(taken')} =>
          unread' \subseteq unread \cup {Len(taken')}
    OBVIOUS
<1>q. QED BY <1>2, <1>3, <1>4, <1>5, Zenon

\* Every variable of the records keeps its type.
LEMMA TypesPreserved == TypeOK /\ GateHolderOwns /\ [Next]_vars => TypeOK'
<1> SUFFICES ASSUME TypeOK, GateHolderOwns, [Next]_vars PROVE TypeOK'
    OBVIOUS
<1> USE KeysAssumption
<1>0. NoRequest \in [at : {"none", "lookup", "orders", "reserve", "submit", "complete"},
                     kind : Kinds, key : Keys \cup {"none"}, ref : Nat, id : Nat]
    BY DEF NoRequest, Kinds
<1>1. ASSUME NEW kind \in Kinds, NEW key \in Keys, Begin(kind, key) PROVE TypeOK'
    BY <1>1 DEF TypeOK, Begin, kite
<1>2. CASE Lookup
  <2>1. UNCHANGED <<rows, taken, unread, runtime, baskets, operation, requests>> /\ faults' \in Nat
        /\ request.at = "lookup"
      BY <1>2 DEF TypeOK, Lookup, kite
  <2>2. CASE Replay \/ Error
      BY <1>2, <1>0, <2>1, <2>2, ReturnTypes DEF TypeOK, Lookup, NoRequest
  <2>3. CASE request' = [request EXCEPT !.at = "orders"] /\ UNCHANGED answers
      BY <2>1, <2>3 DEF TypeOK
  <2>q. QED BY <1>2, <2>2, <2>3 DEF Lookup
<1>3. CASE ReadOrders
  <2>1. UNCHANGED <<rows, taken, unread, runtime, baskets, operation, requests>> /\ faults' \in Nat
        /\ request.at = "orders"
      BY <1>3 DEF TypeOK, ReadOrders, kite
  <2>2. CASE Error
      BY <1>3, <1>0, <2>1, <2>2, ReturnTypes DEF TypeOK, ReadOrders, NoRequest
  <2>3. CASE request' = [request EXCEPT !.at = "reserve"] /\ UNCHANGED answers
      BY <2>1, <2>3 DEF TypeOK
  <2>q. QED BY <1>3, <2>2, <2>3 DEF ReadOrders
<1>4. CASE Reserve
  <2>1. rows' \in [Keys -> Rows]
      BY <1>4, RowTypes DEF TypeOK, Reserve
  <2>2. CASE Replay \/ Error
      BY <1>4, <1>0, <2>1, <2>2, ReturnTypes DEF TypeOK, Reserve, kite, NoRequest
  <2>3. CASE request' = [request EXCEPT !.at = "submit"] /\ UNCHANGED answers /\ Works
      BY <1>4, <2>1, <2>3 DEF TypeOK, Reserve, kite
  <2>q. QED BY <1>4, <2>2, <2>3 DEF Reserve
<1>5. CASE ReserveBasket
  <2>1. rows' \in [Keys -> Rows]
      BY <1>5, RowTypes DEF TypeOK, ReserveBasket
  <2>2. baskets' \subseteq [key : Keys, ref : Nat, left : Nat]
      BY <1>5, RequestTypes DEF TypeOK, ReserveBasket
  <2>3. request' = NoRequest
        /\ answers' \subseteq [key : Keys, kind : Kinds, row : Rows,
                               says : {"submitted", "replayed", "unconfirmed", "error"}]
      BY <1>5, ReturnTypes DEF TypeOK, ReserveBasket, Return
  <2>q. QED BY <1>5, <1>0, <2>1, <2>2, <2>3 DEF TypeOK, ReserveBasket, kite, NoRequest
<1>6. CASE Submit
  <2>1. [key |-> request.key, kind |-> request.kind, ref |-> request.ref] \in Entries
      BY <1>6, RequestTypes DEF Submit, Entries
  <2>2. taken' \in Seq(Entries) /\ unread' \subseteq DOMAIN taken'
    <3>1. CASE Taken(request.key, request.kind, request.ref)
        BY <1>6, <2>1, <3>1, AppendFacts DEF TypeOK, Submit, Taken, Entries
    <3>2. CASE UNCHANGED taken
        BY <1>6, <3>2 DEF TypeOK, Submit, Entries
    <3>q. QED BY <1>6, <3>1, <3>2 DEF Submit
  <2>3. CASE Error
      BY <1>6, <1>0, <2>2, <2>3, ReturnTypes DEF TypeOK, Submit, Keep, NoRequest, Entries
  <2>4. CASE /\ Taken(request.key, request.kind, request.ref) /\ Works
             /\ request' = [request EXCEPT !.at = "complete", !.id = Len(taken')]
             /\ UNCHANGED <<rows, runtime, answers>>
    <3>1. Len(taken') \in Nat
        BY <2>1, <2>4, AppendFacts DEF TypeOK, Taken, Entries
    <3>2. request' \in [at : {"none", "lookup", "orders", "reserve", "submit", "complete"},
                        kind : Kinds, key : Keys \cup {"none"}, ref : Nat, id : Nat]
          /\ request'.key = request.key
        BY <2>4, <3>1 DEF TypeOK
    <3>q. QED BY <1>6, <2>1, <2>2, <2>4, <3>2, RequestTypes DEF TypeOK, Submit, Entries
  <2>q. QED BY <1>6, <2>3, <2>4 DEF Submit
<1>7. CASE Complete
  <2>1. rows' \in [Keys -> Rows]
      BY <1>7, RowTypes DEF TypeOK, Complete
  <2>2. request.id \in DOMAIN taken /\ request.id \in Nat
      BY <1>7, RequestTypes DEF GateHolderOwns, Complete
  <2>3. answers' \subseteq [key : Keys, kind : Kinds, row : Rows,
                            says : {"submitted", "replayed", "unconfirmed", "error"}]
      BY <1>7, <2>2, AnswerTypes DEF Complete, Rows
  <2>q. QED BY <1>7, <1>0, <2>1, <2>2, <2>3 DEF TypeOK, Complete, Blocked, Return, NoRequest
<1>8. ASSUME NEW b \in baskets, StartBasket(b) PROVE TypeOK'
    BY <1>8 DEF TypeOK, StartBasket, kite
<1>9. ASSUME NEW b \in baskets, Leg(b) PROVE TypeOK'
  <2>1. b.key \in Keys /\ b.ref \in Nat
      BY DEF TypeOK
  <2>2. [key |-> b.key, kind |-> "basket", ref |-> b.ref] \in Entries
      BY <2>1 DEF Entries, Kinds
  <2>3. baskets' \subseteq [key : Keys, ref : Nat, left : Nat]
      BY <1>9, <2>1, LegEffect DEF TypeOK
  <2>4. CASE Taken(b.key, "basket", b.ref) /\ unread' \subseteq unread \cup {Len(taken')}
    <3>1. taken' \in Seq(Entries) /\ DOMAIN taken' = DOMAIN taken \cup {Len(taken')}
        BY <2>2, <2>4, AppendFacts DEF TypeOK, Taken, Entries
    <3>q. QED BY <1>9, <2>3, <2>4, <3>1, LegEffect DEF TypeOK, Entries
  <2>5. CASE UNCHANGED <<taken, unread>>
      BY <1>9, <2>3, <2>5, LegEffect DEF TypeOK
  <2>q. QED BY <1>9, <2>4, <2>5, LegEffect
<1>10. ASSUME NEW b \in baskets, EndBasket(b) PROVE TypeOK'
    BY <1>10 DEF TypeOK, EndBasket, kite
<1>11. CASE Poll
    BY <1>11 DEF TypeOK, Poll
<1>12. CASE Crash
    BY <1>12, <1>0 DEF TypeOK, Crash, Return, NoRequest, kite
<1>13. CASE UNCHANGED vars
    BY <1>13 DEF TypeOK, vars, kite, service
<1>q. QED BY <1>1, <1>2, <1>3, <1>4, <1>5, <1>6, <1>7, <1>8, <1>9, <1>10, <1>11, <1>12, <1>13
          DEF Next

-------------------------------------------------------------------------------
(* Rows and what Kite took, under each of the changes that a step may make.   *)

RowsInv == FreeUnused /\ ResultsNameTaken /\ TakenByOwner

\* A row inserted takes nothing from its key: what is there stays.
LEMMA InsertKeepsOwners ==
    ASSUME TypeOK, RowsInv, request.at = "reserve", Insert \/ UNCHANGED rows, taken' = taken
    PROVE  /\ RowsInv'
           /\ \A k \in Keys : rows[k] # NoRow => rows'[k] = rows[k]
           /\ Insert /\ Row = NoRow => rows'[request.key] = Reference
<1>1. request.key \in Keys /\ Reference \in Rows
      /\ Reference.kind \in {"pending-order", "pending-modify", "basket"}
    BY RequestTypes
<1>2. /\ rows' \in [Keys -> Rows] /\ rows \in [Keys -> Rows]
      /\ \A k \in Keys : rows'[k] = rows[k]
                         \/ (k = request.key /\ rows[k] = NoRow /\ rows'[k] = Reference)
    BY <1>1, RowTypes DEF TypeOK, Insert
<1>3. \A i \in DOMAIN taken : taken[i].key \in Keys
    BY TakenTypes
<1>4. NoRow.kind = "none"
    BY DEF NoRow
<1>5. FreeUnused'
    BY <1>1, <1>2 DEF RowsInv, FreeUnused
<1>6. ResultsNameTaken'
    BY <1>1, <1>2 DEF RowsInv, ResultsNameTaken
<1>7. TakenByOwner'
  <2>1. \A i \in DOMAIN taken : rows'[taken[i].key] = rows[taken[i].key]
      BY <1>2, <1>3, <1>4 DEF RowsInv, FreeUnused
  <2>q. QED BY <2>1 DEF RowsInv, TakenByOwner
<1>8. \A k \in Keys : rows[k] # NoRow => rows'[k] = rows[k]
    BY <1>2
<1>9. Insert /\ Row = NoRow => rows'[request.key] = Reference
    BY <1>1 DEF TypeOK, Insert, Row
<1>q. QED BY <1>5, <1>6, <1>7, <1>8, <1>9 DEF RowsInv

\* A completion changes the row of the request that holds the gate, and no other.
LEMMA UpdateKeepsOwners ==
    ASSUME TypeOK, RowsInv, GateHolderOwns, request.at = "complete",
           Update(request.id) \/ UNCHANGED rows, taken' = taken
    PROVE  /\ RowsInv'
           /\ \A k \in Keys : rows[k].kind = "basket" => rows'[k] = rows[k]
<1>1. request.key \in Keys /\ request.kind # "basket" /\ Row = Reference
      /\ Reference.kind \in {"pending-order", "pending-modify"}
      /\ request.id \in DOMAIN taken /\ taken[request.id].key = request.key
    BY RequestTypes DEF GateHolderOwns
<1>2. /\ rows' \in [Keys -> Rows] /\ rows \in [Keys -> Rows]
      /\ \A k \in Keys : rows'[k] = rows[k]
                         \/ (k = request.key /\ rows[k] = Reference
                             /\ rows'[k] = [kind |-> "result", ref |-> request.id])
    BY <1>1, RowTypes DEF TypeOK, Update, Row
<1>3. \A i \in DOMAIN taken : taken[i].key \in Keys
    BY TakenTypes
<1>4. FreeUnused'
    BY <1>1, <1>2 DEF RowsInv, FreeUnused
<1>5. ResultsNameTaken'
    BY <1>1, <1>2 DEF RowsInv, ResultsNameTaken
<1>6. \A k \in Keys : rows[k].kind = "basket" => rows'[k] = rows[k]
    BY <1>1, <1>2
<1>7. \A k \in Keys : rows'[k].kind = "basket" => rows'[k] = rows[k]
    BY <1>1, <1>2
<1>8. TakenByOwner'
    BY <1>3, <1>6, <1>7 DEF RowsInv, TakenByOwner
<1>q. QED BY <1>4, <1>5, <1>6, <1>8 DEF RowsInv

\* Kite takes one more thing with a key: with a key of a single order nothing was taken
\* before, and a leg is its basket's.
LEMMA TakenKeepsOwners ==
    ASSUME TypeOK, RowsInv, NEW key \in Keys, NEW kind \in Kinds, NEW ref \in Nat,
           Taken(key, kind, ref), UNCHANGED rows,
           \/ rows[key] = [kind |-> "basket", ref |-> ref] /\ kind = "basket"
           \/ /\ rows[key].kind \notin {"none", "basket"}
              /\ \A i \in DOMAIN taken : taken[i].key # key
    PROVE  RowsInv' /\ DOMAIN taken' = DOMAIN taken \cup {Len(taken')}
           /\ taken'[Len(taken')].key = key /\ Len(taken') \notin DOMAIN taken
           /\ \A i \in DOMAIN taken : taken'[i] = taken[i]
<1> DEFINE last == Len(taken')
<1>1. [key |-> key, kind |-> kind, ref |-> ref] \in Entries
    BY DEF Entries
<1>2. /\ last \notin DOMAIN taken /\ DOMAIN taken' = DOMAIN taken \cup {last}
      /\ taken'[last] = [key |-> key, kind |-> kind, ref |-> ref]
      /\ \A i \in DOMAIN taken : taken'[i] = taken[i]
    BY <1>1, AppendFacts DEF TypeOK, Taken, Entries
<1> HIDE DEF last
<1>3. FreeUnused'
  <2> SUFFICES ASSUME NEW k \in Keys, rows[k].kind = "none"
               PROVE  rows[k] = NoRow /\ \A i \in DOMAIN taken' : taken'[i].key # k
      BY DEF FreeUnused
  <2>1. k # key
      OBVIOUS
  <2>2. rows[k] = NoRow /\ \A i \in DOMAIN taken : taken[i].key # k
      BY DEF RowsInv, FreeUnused
  <2>q. QED BY <1>2, <2>1, <2>2
<1>4. ResultsNameTaken'
    BY <1>2 DEF RowsInv, ResultsNameTaken
<1>5. TakenByOwner'
  <2> SUFFICES ASSUME NEW i \in DOMAIN taken'
               PROVE  IF rows[taken'[i].key].kind = "basket"
                      THEN taken'[i].kind = "basket" /\ taken'[i].ref = rows[taken'[i].key].ref
                      ELSE \A j \in DOMAIN taken' : taken'[j].key = taken'[i].key => j = i
      BY DEF TakenByOwner
  <2>1. CASE i = last
    <3>1. taken'[i].key = key /\ taken'[i].kind = kind /\ taken'[i].ref = ref
        BY <1>2, <2>1
    <3>2. rows[key].kind # "basket" => \A j \in DOMAIN taken : taken'[j].key # key
        BY <1>2
    <3>q. QED BY <1>2, <2>1, <3>1, <3>2
  <2>2. CASE i \in DOMAIN taken
    <3>1. taken'[i] = taken[i] /\ i \in DOMAIN taken'
        BY <1>2, <2>2
    <3>2. IF rows[taken[i].key].kind = "basket"
          THEN taken[i].kind = "basket" /\ taken[i].ref = rows[taken[i].key].ref
          ELSE \A j \in DOMAIN taken : taken[j].key = taken[i].key => j = i
        BY <2>2 DEF RowsInv, TakenByOwner
    <3>3. rows[taken[i].key].kind # "basket" => taken[i].key # key
        BY <2>2
    <3>q. QED BY <1>2, <3>1, <3>2, <3>3
  <2>q. QED BY <1>2, <2>1, <2>2
<1>q. QED BY <1>2, <1>3, <1>4, <1>5 DEF RowsInv, last

-------------------------------------------------------------------------------
(* Every step keeps the owners.                                               *)

\* A request that is neither between its submission nor its completion claims no row.
LEMMA HolderOf ==
    ASSUME request'.at \notin {"submit", "complete"}
    PROVE  GateHolderOwns'
    BY DEF GateHolderOwns

\* A row of a basket stays what it is, and so do the deployments that own it.
LEMMA DeploymentsKeep ==
    ASSUME TypeOK, DeploymentsOwn, baskets' \subseteq baskets,
           \A k \in Keys : rows[k].kind = "basket" => rows'[k] = rows[k]
    PROVE  DeploymentsOwn'
<1> SUFFICES ASSUME NEW b \in baskets' PROVE rows'[b.key] = [kind |-> "basket", ref |-> b.ref]
    BY DEF DeploymentsOwn
<1>1. rows[b.key] = [kind |-> "basket", ref |-> b.ref] /\ b.key \in Keys
    BY DEF DeploymentsOwn, TypeOK
<1>q. QED BY <1>1

\* A step that leaves the rows and what Kite took alone keeps what ties them.
LEMMA RowsUntouched ==
    ASSUME RowsInv, UNCHANGED <<rows, taken>>
    PROVE  RowsInv'
    BY DEF RowsInv, FreeUnused, ResultsNameTaken, TakenByOwner

\* No step takes a row from its owner, or gives Kite anything that another owner's key
\* stands for.
LEMMA OwnersPreserved == TypeOK /\ OwnerInv /\ [Next]_vars => OwnerInv'
<1> SUFFICES ASSUME TypeOK, OwnerInv, [Next]_vars PROVE OwnerInv'
    OBVIOUS
<1>0. RowsInv /\ GateHolderOwns /\ DeploymentsOwn
    BY DEF OwnerInv, RowsInv
<1> SUFFICES RowsInv' /\ GateHolderOwns' /\ DeploymentsOwn'
    BY DEF OwnerInv, RowsInv
<1>1. ASSUME NEW kind \in Kinds, NEW key \in Keys, Begin(kind, key)
      PROVE  RowsInv' /\ GateHolderOwns' /\ DeploymentsOwn'
  <2>1. UNCHANGED <<rows, taken, baskets>> /\ request'.at \in {"lookup", "reserve"}
      BY <1>1 DEF Begin, kite
  <2>q. QED BY <1>0, <2>1, HolderOf, DeploymentsKeep, RowsUntouched
<1>2. CASE Lookup \/ ReadOrders
  <2>1. UNCHANGED <<rows, taken, baskets>>
      BY <1>2 DEF Lookup, ReadOrders, kite
  <2>2. request'.at \in {"none", "orders", "reserve"}
      BY <1>2, RequestTypes DEF Lookup, ReadOrders, Replay, Error, Return, NoRequest, TypeOK
  <2>q. QED BY <1>0, <2>1, <2>2, HolderOf, DeploymentsKeep, RowsUntouched
<1>3. CASE Reserve
  <2>1. request.at = "reserve" /\ request.kind # "basket" /\ (Insert \/ UNCHANGED rows)
        /\ UNCHANGED <<taken, baskets>>
      BY <1>3 DEF Reserve, kite
  <2>2. RowsInv' /\ \A k \in Keys : rows[k] # NoRow => rows'[k] = rows[k]
      BY <1>0, <2>1, InsertKeepsOwners
  <2>3. DeploymentsOwn'
      BY <1>0, <2>1, <2>2, DeploymentsKeep DEF NoRow
  <2>4. GateHolderOwns'
    <3>1. CASE Replay \/ Error
        BY <3>1, HolderOf DEF Replay, Error, Return, NoRequest
    <3>2. CASE Row = NoRow /\ Insert /\ request' = [request EXCEPT !.at = "submit"]
      <4>1. /\ request'.at = "submit" /\ request'.kind = request.kind
            /\ request'.key = request.key /\ request'.ref = request.ref
          BY <3>2 DEF TypeOK
      <4>2. Row' = Reference /\ Reference' = Reference
          BY <1>0, <2>1, <3>2, <4>1, InsertKeepsOwners DEF Row, Reference
      <4>3. \A i \in DOMAIN taken : taken[i].key # request.key
          BY <1>0, <2>1, <3>2, RequestTypes DEF RowsInv, FreeUnused, Row, NoRow
      <4>q. QED BY <2>1, <4>1, <4>2, <4>3 DEF GateHolderOwns
    <3>q. QED BY <1>3, <3>1, <3>2 DEF Reserve
  <2>q. QED BY <2>2, <2>3, <2>4
<1>4. CASE ReserveBasket
  <2>1. request.at = "reserve" /\ request.kind = "basket" /\ (Insert \/ UNCHANGED rows)
        /\ UNCHANGED taken /\ request'.at = "none"
      BY <1>4 DEF ReserveBasket, Replay, Error, Return, NoRequest, kite
  <2>2. RowsInv' /\ \A k \in Keys : rows[k] # NoRow => rows'[k] = rows[k]
      BY <1>0, <2>1, InsertKeepsOwners
  <2>3. CASE UNCHANGED baskets
      BY <1>0, <2>1, <2>2, <2>3, HolderOf, DeploymentsKeep DEF NoRow
  <2>4. CASE /\ Row = NoRow /\ Insert
             /\ baskets' = baskets \cup {[key |-> request.key, ref |-> request.ref, left |-> Legs]}
    <3>1. rows'[request.key] = [kind |-> "basket", ref |-> request.ref]
        BY <1>0, <2>1, <2>4, InsertKeepsOwners DEF Reference
    <3>2. ASSUME NEW b \in baskets PROVE rows'[b.key] = [kind |-> "basket", ref |-> b.ref]
      <4>1. b.key \in Keys /\ rows[b.key] = [kind |-> "basket", ref |-> b.ref]
          BY <1>0 DEF DeploymentsOwn, TypeOK
      <4>q. QED BY <2>2, <4>1 DEF NoRow
    <3>3. DeploymentsOwn'
      <4> SUFFICES ASSUME NEW b \in baskets'
                   PROVE  rows'[b.key] = [kind |-> "basket", ref |-> b.ref]
          BY DEF DeploymentsOwn
      <4>1. CASE b \in baskets
          BY <3>2, <4>1
      <4>2. CASE b = [key |-> request.key, ref |-> request.ref, left |-> Legs]
          BY <3>1, <4>2
      <4>q. QED BY <2>4, <4>1, <4>2
    <3>q. QED BY <2>1, <2>2, <3>3, HolderOf
  <2>q. QED BY <1>4, <2>3, <2>4 DEF ReserveBasket
<1>5. CASE Submit
  <2>1. /\ request.at = "submit" /\ request.key \in Keys /\ request.kind \in Kinds
        /\ request.ref \in Nat
        /\ rows[request.key].kind \notin {"none", "basket"} /\ UNCHANGED <<rows, baskets>>
        /\ \A i \in DOMAIN taken : taken[i].key # request.key
      BY <1>0, <1>5, RequestTypes DEF Submit, Keep, GateHolderOwns, Row
  <2>2. DeploymentsOwn'
      BY <1>0, <2>1, DeploymentsKeep
  <2>3. RowsInv'
      BY <1>0, <1>5, <2>1, TakenKeepsOwners, RowsUntouched DEF Submit
  <2>4. GateHolderOwns'
    <3>1. CASE Error
        BY <3>1, HolderOf DEF Error, Return, NoRequest
    <3>2. CASE /\ Taken(request.key, request.kind, request.ref)
               /\ request' = [request EXCEPT !.at = "complete", !.id = Len(taken')]
      <4>1. Len(taken') \in DOMAIN taken' /\ taken'[Len(taken')].key = request.key
          BY <1>0, <2>1, <3>2, TakenKeepsOwners
      <4>2. /\ request'.at = "complete" /\ request'.id = Len(taken')
            /\ request'.kind = request.kind /\ request'.key = request.key
            /\ request'.ref = request.ref
          BY <3>2 DEF TypeOK
      <4>3. Row' = Row /\ Reference' = Reference
          BY <2>1, <4>2 DEF Row, Reference
      <4>q. QED BY <1>0, <2>1, <4>1, <4>2, <4>3 DEF GateHolderOwns
    <3>q. QED BY <1>5, <3>1, <3>2 DEF Submit
  <2>q. QED BY <2>2, <2>3, <2>4
<1>6. CASE Complete
  <2>1. request.at = "complete" /\ (Update(request.id) \/ UNCHANGED rows)
        /\ UNCHANGED <<taken, baskets>> /\ request'.at = "none"
      BY <1>6 DEF Complete, Return, NoRequest
  <2>q. QED BY <1>0, <2>1, UpdateKeepsOwners, HolderOf, DeploymentsKeep
<1>7. ASSUME NEW b \in baskets, StartBasket(b) \/ EndBasket(b)
      PROVE  RowsInv' /\ GateHolderOwns' /\ DeploymentsOwn'
  <2>1. UNCHANGED <<rows, taken, request>> /\ baskets' \subseteq baskets
      BY <1>7 DEF StartBasket, EndBasket, kite
  <2>2. GateHolderOwns'
      BY <1>0, <2>1 DEF GateHolderOwns, Row, Reference
  <2>q. QED BY <1>0, <2>1, <2>2, DeploymentsKeep, RowsUntouched
<1>8. ASSUME NEW b \in baskets, Leg(b)
      PROVE  RowsInv' /\ GateHolderOwns' /\ DeploymentsOwn'
  <2>1. /\ request'.at = "none" /\ UNCHANGED rows
        /\ Taken(b.key, "basket", b.ref) \/ UNCHANGED taken
        /\ \E n \in Nat :
              baskets' = (baskets \ {b}) \cup {[key |-> b.key, ref |-> b.ref, left |-> n]}
      BY <1>8, LegEffect
  <2>2. b.key \in Keys /\ b.ref \in Nat /\ rows[b.key] = [kind |-> "basket", ref |-> b.ref]
      BY <1>0 DEF TypeOK, DeploymentsOwn
  <2>3. RowsInv'
      BY <1>0, <2>1, <2>2, TakenKeepsOwners, RowsUntouched DEF Kinds
  <2>4. DeploymentsOwn'
    <3>1. PICK n \in Nat :
              baskets' = (baskets \ {b}) \cup {[key |-> b.key, ref |-> b.ref, left |-> n]}
        BY <2>1
    <3> SUFFICES ASSUME NEW c \in baskets'
                 PROVE  rows'[c.key] = [kind |-> "basket", ref |-> c.ref]
        BY DEF DeploymentsOwn
    <3>2. CASE c \in baskets
        BY <1>0, <2>1, <3>2 DEF DeploymentsOwn
    <3>3. CASE c = [key |-> b.key, ref |-> b.ref, left |-> n]
        BY <2>1, <2>2, <3>3
    <3>q. QED BY <3>1, <3>2, <3>3
  <2>q. QED BY <2>1, <2>3, <2>4, HolderOf
<1>9. CASE Poll
  <2>1. UNCHANGED <<rows, taken, baskets, request>>
      BY <1>9 DEF Poll
  <2>2. GateHolderOwns'
      BY <1>0, <2>1 DEF GateHolderOwns, Row, Reference
  <2>q. QED BY <1>0, <2>1, <2>2, DeploymentsKeep, RowsUntouched
<1>10. CASE Crash
  <2>1. UNCHANGED <<rows, taken>> /\ baskets' \subseteq baskets /\ request'.at = "none"
      BY <1>10 DEF Crash, Return, NoRequest, kite
  <2>q. QED BY <1>0, <2>1, HolderOf, DeploymentsKeep, RowsUntouched
<1>11. CASE UNCHANGED vars
  <2>1. UNCHANGED <<rows, taken, baskets, request>>
      BY <1>11 DEF vars, kite, service
  <2>2. GateHolderOwns'
      BY <1>0, <2>1 DEF GateHolderOwns, Row, Reference
  <2>q. QED BY <1>0, <2>1, <2>2, DeploymentsKeep, RowsUntouched
<1>q. QED BY <1>1, <1>2, <1>3, <1>4, <1>5, <1>6, <1>7, <1>8, <1>9, <1>10, <1>11 DEF Next

\* At first no key is used and nothing is taken.
LEMMA InitOwners == Init => TypeOK /\ OwnerInv
<1> SUFFICES ASSUME Init PROVE TypeOK /\ OwnerInv
    OBVIOUS
<1>1. taken \in Seq([key : Keys, kind : Kinds, ref : Nat]) /\ DOMAIN taken = {}
    BY DEF Init
<1>2. NoRow \in Rows
    BY DEF NoRow, Rows
<1>3. NoRequest \in [at : {"none", "lookup", "orders", "reserve", "submit", "complete"},
                     kind : Kinds, key : Keys \cup {"none"}, ref : Nat, id : Nat]
      /\ NoRequest.at = "none"
    BY DEF NoRequest, Kinds
<1>4. TypeOK
    BY <1>1, <1>2, <1>3 DEF Init, TypeOK
<1>5. \A k \in Keys : rows[k] = NoRow /\ rows[k].kind = "none"
    BY DEF Init, NoRow
<1>6. FreeUnused /\ ResultsNameTaken /\ TakenByOwner
    BY <1>1, <1>5 DEF FreeUnused, ResultsNameTaken, TakenByOwner
<1>7. GateHolderOwns /\ DeploymentsOwn
    BY <1>3 DEF Init, GateHolderOwns, DeploymentsOwn
<1>q. QED BY <1>4, <1>6, <1>7 DEF OwnerInv

\* The types and the owners, always.
LEMMA Owners == Spec => [](TypeOK /\ OwnerInv)
<1>1. TypeOK /\ OwnerInv /\ [Next]_vars => (TypeOK /\ OwnerInv)'
    BY TypesPreserved, OwnersPreserved DEF OwnerInv
<1>q. QED BY <1>1, InitOwners, PTL DEF Spec

\* The type invariant: the rows, Kite's record, the requests and the deployments keep
\* their types.
THEOREM IdempotencyTypeCorrect == Spec => []TypeOK
    BY Owners, PTL

\* However often a key is sent and whenever the process dies, all that Kite ever takes
\* with it is one order or one modification, or legs of one and the same deployment.
THEOREM OneUsePerKey == Spec => []OneUse
<1>1. TypeOK /\ OwnerInv => OneUse
    BY DEF OwnerInv, TakenByOwner, OneUse
<1>q. QED BY <1>1, Owners, PTL

-------------------------------------------------------------------------------
(* What Kite took only grows, and what it took stays as it is.                *)

\* A submission or a leg appends to what Kite took; nothing else changes it.
LEMMA TakenGrows ==
    ASSUME TypeOK, OwnerInv, [Next]_vars
    PROVE  \A i \in DOMAIN taken : i \in DOMAIN taken' /\ taken'[i] = taken[i]
<1>1. CASE UNCHANGED taken
    BY <1>1
<1>2. CASE Submit
  <2>1. [key |-> request.key, kind |-> request.kind, ref |-> request.ref] \in Entries
      BY <1>2, RequestTypes DEF Submit, Entries
  <2>2. Taken(request.key, request.kind, request.ref) \/ UNCHANGED taken
      BY <1>2 DEF Submit
  <2>q. QED BY <1>1, <2>1, <2>2, AppendFacts DEF TypeOK, Taken, Entries
<1>3. ASSUME NEW b \in baskets, Leg(b)
      PROVE  \A i \in DOMAIN taken : i \in DOMAIN taken' /\ taken'[i] = taken[i]
  <2>1. [key |-> b.key, kind |-> "basket", ref |-> b.ref] \in Entries
      BY DEF TypeOK, Entries, Kinds
  <2>2. Taken(b.key, "basket", b.ref) \/ UNCHANGED taken
      BY <1>3, LegEffect
  <2>3. taken \in Seq(Entries)
      BY DEF TypeOK, Entries
  <2>4. CASE Taken(b.key, "basket", b.ref)
      BY <2>1, <2>3, <2>4, AppendFacts DEF Taken
  <2>q. QED BY <1>1, <2>2, <2>4
<1>4. UNCHANGED taken \/ Submit \/ \E b \in baskets : Leg(b)
    BY DEF Next, Begin, Lookup, ReadOrders, Reserve, ReserveBasket, Complete, StartBasket,
           EndBasket, Poll, Crash, kite, vars
<1>q. QED BY <1>1, <1>2, <1>3, <1>4

\* A request is answered with a result, or whatever its row holds, only by the row it has.
LEMMA NewReplays ==
    ASSUME TypeOK, [Next]_vars, NEW a \in answers', a \notin answers, a.says = "replayed"
    PROVE  /\ request.at # "none" /\ Row # NoRow
           /\ a.row = Row /\ a.key = request.key /\ a.kind = request.kind
           /\ a.kind = "basket" \/ ~Unconfirmed
<1>1. CASE Replay /\ Row # NoRow /\ request.at # "none"
  <2>1. CASE Answer("replayed", Row) /\ ~(request.kind # "basket" /\ Unconfirmed)
      BY <1>1, <2>1 DEF Answer
  <2>2. CASE Answer("unconfirmed", Row)
      BY <2>2 DEF Answer
  <2>q. QED BY <1>1, <2>1, <2>2 DEF Replay
<1>2. CASE Error
    BY <1>2 DEF Error, Answer
<1>3. CASE Answer("submitted", [kind |-> "result", ref |-> request.id])
    BY <1>3 DEF Answer
<1>4. \/ UNCHANGED answers
      \/ Replay /\ Row # NoRow /\ request.at # "none"
      \/ Error
      \/ Answer("submitted", [kind |-> "result", ref |-> request.id])
    BY DEF Next, Begin, Lookup, ReadOrders, Reserve, ReserveBasket, Submit, Complete, StartBasket,
           Leg, EndBasket, Poll, Crash, vars
<1>q. QED BY <1>1, <1>2, <1>3, <1>4

\* A replay that names a result names what Kite took for that very key.
LEMMA ReplaysPreserved == TypeOK /\ OwnerInv /\ ReplaysAreTrue /\ [Next]_vars => ReplaysAreTrue'
<1> SUFFICES ASSUME TypeOK, OwnerInv, ReplaysAreTrue, [Next]_vars,
                    NEW a \in answers', a.says = "replayed"
             PROVE  \/ /\ a.row.kind = "result" /\ a.row.ref \in DOMAIN taken'
                       /\ taken'[a.row.ref].key = a.key
                    \/ a.row.kind = "basket" \/ a.kind = "basket"
    BY DEF ReplaysAreTrue
<1>1. \/ /\ a.row.kind = "result" /\ a.row.ref \in DOMAIN taken
         /\ taken[a.row.ref].key = a.key
      \/ a.row.kind = "basket" \/ a.kind = "basket"
  <2>1. CASE a \in answers
      BY <2>1 DEF ReplaysAreTrue
  <2>2. CASE a \notin answers
    <3>1. /\ Row # NoRow /\ a.row = Row /\ a.key = request.key
          /\ a.kind = "basket" \/ ~Unconfirmed
          /\ request.key \in Keys /\ Row \in Rows
        BY <2>2, NewReplays, RequestTypes
    <3>2. Row.kind # "none"
        BY <3>1 DEF OwnerInv, FreeUnused, Row
    <3>3. a.kind # "basket" => Row.kind \in {"basket", "result"}
        BY <3>1, <3>2 DEF Rows, Unconfirmed
    <3>q. QED BY <3>1, <3>3 DEF OwnerInv, ResultsNameTaken, Row
  <2>q. QED BY <2>1, <2>2
<1>q. QED BY <1>1, TakenGrows

\* A request that Place or Modify answers from its record is told of its own order.
THEOREM ReplaysCorrect == Spec => []ReplaysAreTrue
<1>1. Init => ReplaysAreTrue
    BY DEF Init, ReplaysAreTrue
<1>q. QED BY <1>1, Owners, ReplaysPreserved, PTL DEF Spec

-------------------------------------------------------------------------------
(* READY.                                                                     *)

\* Only a poll that has read everything makes the account READY.
LEMMA ReadyPreserved == TypeOK /\ ReadyIsReconciled /\ [Next]_vars => ReadyIsReconciled'
<1> SUFFICES ASSUME TypeOK, ReadyIsReconciled, [Next]_vars, runtime' = "ready"
             PROVE  unread' = {}
    BY DEF ReadyIsReconciled
<1>1. CASE Poll
    BY <1>1 DEF Poll, ReadyIsReconciled
<1>2. CASE UNCHANGED unread /\ runtime = "ready"
    BY <1>2 DEF ReadyIsReconciled
<1>3. (UNCHANGED unread /\ runtime = "ready") \/ Poll
  <2>1. CASE \E kind \in Kinds, key \in Keys : Begin(kind, key)
      BY <2>1 DEF Begin, kite
  <2>2. CASE Lookup \/ ReadOrders \/ Reserve \/ ReserveBasket
      BY <2>2 DEF Lookup, ReadOrders, Reserve, ReserveBasket, kite
  <2>3. CASE Submit
      BY <2>3 DEF Submit
  <2>4. CASE Complete \/ Crash
      BY <2>4 DEF Complete, Blocked, Crash
  <2>5. CASE \E b \in baskets : StartBasket(b) \/ EndBasket(b)
      BY <2>5 DEF StartBasket, EndBasket, kite
  <2>6. CASE \E b \in baskets : Leg(b)
      BY <2>6, LegEffect
  <2>7. CASE UNCHANGED vars
      BY <2>7 DEF vars, kite, service
  <2>q. QED BY <2>1, <2>2, <2>3, <2>4, <2>5, <2>6, <2>7 DEF Next
<1>q. QED BY <1>1, <1>2, <1>3

\* New exposure is open only when a poll has read back every acknowledged submission.
THEOREM ReadyCorrect == Spec => []ReadyIsReconciled
<1>1. Init => ReadyIsReconciled
    BY DEF Init, ReadyIsReconciled
<1>q. QED BY <1>1, Owners, ReadyPreserved, PTL DEF Spec

-------------------------------------------------------------------------------
(* The promise: Kite's taking an order is Take, a reservation is Claim and a  *)
(* completion Confirm; everything else is a stutter.                          *)

Fates == [k \in Keys |-> Fate(rows[k])]
TakenKeys == [i \in DOMAIN taken |-> taken[i].key]

\* The keys of what Kite took are a sequence, of the same length.
LEMMA TakenKeysTypes ==
    ASSUME NEW s \in Seq(Entries), NEW t, t = [i \in DOMAIN s |-> s[i].key]
    PROVE  t \in Seq(Keys) /\ Len(t) = Len(s) /\ DOMAIN t = DOMAIN s
<1>1. DOMAIN s = 1 .. Len(s) /\ Len(s) \in Nat
    BY LenProperties
<1>2. ASSUME NEW i \in DOMAIN s PROVE s[i].key \in Keys
  <2>1. s[i] \in Entries
      BY <1>1, ElementOfSeq
  <2>q. QED BY <2>1 DEF Entries
<1>3. t \in [1 .. Len(s) -> Keys]
    BY <1>1, <1>2
<1>4. t \in Seq(Keys)
    BY <1>1, <1>3, SeqDef
<1>5. 1 .. Len(t) = 1 .. Len(s) /\ Len(t) \in Nat
    BY <1>3, <1>4, LenProperties
<1>q. QED BY <1>1, <1>3, <1>4, <1>5

\* What is appended to Kite's record is appended to its keys.
LEMMA TakenKeysAppend ==
    ASSUME TypeOK, NEW key \in Keys, NEW kind \in Kinds, NEW ref \in Nat, Taken(key, kind, ref)
    PROVE  TakenKeys' = Append(TakenKeys, key)
<1> DEFINE e == [key |-> key, kind |-> kind, ref |-> ref]
<1>1. e \in Entries /\ e.key = key
    BY DEF Entries
<1>2. taken \in Seq(Entries) /\ taken' = Append(taken, e)
    BY DEF TypeOK, Taken, Entries
<1> HIDE DEF e
<1>3. /\ taken' \in Seq(Entries) /\ Len(taken') = Len(taken) + 1 /\ Len(taken) \in Nat
      /\ taken'[Len(taken')] = e /\ \A i \in DOMAIN taken : taken'[i] = taken[i]
    BY <1>1, <1>2, AppendFacts, LenProperties
<1>4. TakenKeys \in Seq(Keys) /\ Len(TakenKeys) = Len(taken)
    BY <1>2, TakenKeysTypes DEF TakenKeys
<1>5. TakenKeys' \in Seq(Keys) /\ Len(TakenKeys') = Len(taken')
    BY <1>3, TakenKeysTypes DEF TakenKeys
<1>6. /\ Append(TakenKeys, key) \in Seq(Keys)
      /\ Len(Append(TakenKeys, key)) = Len(TakenKeys) + 1
      /\ Append(TakenKeys, key)[Len(TakenKeys) + 1] = key
      /\ \A i \in 1 .. Len(TakenKeys) : Append(TakenKeys, key)[i] = TakenKeys[i]
    BY <1>4, AppendProperties
<1>7. \A i \in 1 .. Len(taken') : TakenKeys'[i] = Append(TakenKeys, key)[i]
  <2> SUFFICES ASSUME NEW i \in 1 .. Len(taken') PROVE TakenKeys'[i] = Append(TakenKeys, key)[i]
      OBVIOUS
  <2>1. TakenKeys'[i] = taken'[i].key
      BY <1>3, LenProperties DEF TakenKeys
  <2>2. CASE i = Len(taken')
      BY <1>1, <1>3, <1>4, <1>6, <2>1, <2>2
  <2>3. CASE i \in 1 .. Len(taken)
    <3>1. i \in DOMAIN taken
        BY <1>2, <2>3, LenProperties
    <3>2. TakenKeys[i] = taken[i].key
        BY <3>1 DEF TakenKeys
    <3>3. Append(TakenKeys, key)[i] = TakenKeys[i]
        BY <1>4, <1>6, <2>3
    <3>q. QED BY <1>3, <2>1, <3>1, <3>2, <3>3
  <2>4. \A n \in Nat : \A m : m = n + 1 /\ i \in 1 .. m => i = m \/ i \in 1 .. n
      OBVIOUS
  <2>5. i = Len(taken') \/ i \in 1 .. Len(taken)
      BY <1>3, <2>4
  <2>q. QED BY <2>2, <2>3, <2>5
<1>8. /\ Len(TakenKeys') = Len(Append(TakenKeys, key))
      /\ \A i \in 1 .. Len(TakenKeys') : TakenKeys'[i] = Append(TakenKeys, key)[i]
    BY <1>3, <1>4, <1>5, <1>6, <1>7
<1> DEFINE later == TakenKeys'
           appended == Append(TakenKeys, key)
<1>9. later \in Seq(Keys) /\ appended \in Seq(Keys) /\ Len(later) = Len(appended)
      /\ \A i \in 1 .. Len(later) : later[i] = appended[i]
    BY <1>5, <1>6, <1>8
<1> HIDE DEF later, appended
<1>10. later = appended
    BY <1>9, SeqEqual
<1>q. QED BY <1>10 DEF later, appended

\* A key that no entry of Kite's record has is not used, and one of an entry is.
LEMMA UsedKeys ==
    ASSUME NEW k \in Keys
    PROVE  (\E i \in DOMAIN TakenKeys : TakenKeys[i] = k) <=> \E i \in DOMAIN taken : taken[i].key = k
    BY DEF TakenKeys

\* The fate of the other keys stays what it was.
LEMMA FatesExcept ==
    ASSUME NEW k \in Keys, NEW fate, TypeOK, rows' \in [Keys -> Rows],
           \A j \in Keys \ {k} : rows'[j] = rows[j], Fate(rows'[k]) = fate
    PROVE  Fates' = [Fates EXCEPT ![k] = fate]
    BY DEF Fates, TypeOK

PromiseStep ==
    \/ UNCHANGED <<Fates, TakenKeys>>
    \/ \E k \in Keys :
          \/ /\ Fates[k] = "unused" /\ UNCHANGED TakenKeys
             /\ \E use \in {"single", "basket"} : Fates' = [Fates EXCEPT ![k] = use]
          \/ /\ Fates[k] = "basket"
                \/ (Fates[k] = "single" /\ ~\E i \in DOMAIN TakenKeys : TakenKeys[i] = k)
             /\ TakenKeys' = Append(TakenKeys, k) /\ UNCHANGED Fates
          \/ /\ Fates[k] = "single" /\ \E i \in DOMAIN TakenKeys : TakenKeys[i] = k
             /\ Fates' = [Fates EXCEPT ![k] = "confirmed"] /\ UNCHANGED TakenKeys

\* A reservation claims the key, or finds it claimed.
LEMMA InsertClaims ==
    ASSUME TypeOK, OwnerInv, request.at = "reserve", Insert \/ UNCHANGED rows, UNCHANGED taken
    PROVE  PromiseStep
<1>1. CASE UNCHANGED rows
    BY <1>1 DEF PromiseStep, Fates, TakenKeys
<1>2. CASE Insert /\ Row # NoRow
  <2>1. UNCHANGED rows
      BY <1>2 DEF Insert, Row, TypeOK
  <2>q. QED BY <1>1, <2>1
<1>3. CASE Insert /\ Row = NoRow
  <2>1. request.key \in Keys /\ Reference \in Rows
        /\ Reference.kind \in {"pending-order", "pending-modify", "basket"}
      BY RequestTypes
  <2>2. Fates[request.key] = "unused"
      BY <1>3, <2>1 DEF Fates, Fate, Row, NoRow
  <2>3. /\ rows' \in [Keys -> Rows] /\ rows'[request.key] = Reference
        /\ \A j \in Keys \ {request.key} : rows'[j] = rows[j]
      BY <1>3, <2>1, RowTypes DEF Insert, Row, TypeOK
  <2>4. Fate(Reference) \in {"single", "basket"}
      BY <2>1 DEF Fate
  <2>5. Fates' = [Fates EXCEPT ![request.key] = Fate(Reference)]
      BY <2>1, <2>3, FatesExcept
  <2>6. UNCHANGED TakenKeys
      BY DEF TakenKeys
  <2>q. QED BY <2>1, <2>2, <2>4, <2>5, <2>6 DEF PromiseStep
<1>q. QED BY <1>1, <1>2, <1>3

\* A completion confirms the key with which Kite took the order.
LEMMA UpdateConfirms ==
    ASSUME TypeOK, OwnerInv, request.at = "complete",
           Update(request.id) \/ UNCHANGED rows, UNCHANGED taken
    PROVE  PromiseStep
<1>1. CASE UNCHANGED rows
    BY <1>1 DEF PromiseStep, Fates, TakenKeys
<1>2. CASE Update(request.id)
  <2>1. /\ request.key \in Keys /\ Row = Reference
        /\ Reference.kind \in {"pending-order", "pending-modify"}
        /\ request.id \in DOMAIN taken /\ taken[request.id].key = request.key
      BY RequestTypes DEF OwnerInv, GateHolderOwns
  <2>2. Fates[request.key] = "single"
      BY <2>1 DEF Fates, Fate, Row
  <2>3. \E i \in DOMAIN TakenKeys : TakenKeys[i] = request.key
      BY <2>1, UsedKeys
  <2>4. /\ rows' \in [Keys -> Rows]
        /\ rows'[request.key] = [kind |-> "result", ref |-> request.id]
        /\ \A j \in Keys \ {request.key} : rows'[j] = rows[j]
      BY <1>2, <2>1, RowTypes DEF Update, Row, TypeOK
  <2>5. Fates' = [Fates EXCEPT ![request.key] = "confirmed"]
    <3>1. Fate(rows'[request.key]) = "confirmed"
        BY <2>4 DEF Fate
    <3>q. QED BY <2>1, <2>4, <3>1, FatesExcept
  <2>6. UNCHANGED TakenKeys
      BY DEF TakenKeys
  <2>q. QED BY <2>1, <2>2, <2>3, <2>5, <2>6 DEF PromiseStep
<1>q. QED BY <1>1, <1>2

\* A submission or a leg takes with a key that is its own.
LEMMA TakenTakes ==
    ASSUME TypeOK, NEW key \in Keys, NEW kind \in Kinds, NEW ref \in Nat,
           Taken(key, kind, ref) \/ UNCHANGED taken, UNCHANGED rows,
           \/ rows[key].kind = "basket"
           \/ /\ rows[key].kind \in {"pending-order", "pending-modify"}
              /\ \A i \in DOMAIN taken : taken[i].key # key
    PROVE  PromiseStep
<1>1. CASE UNCHANGED taken
    BY <1>1 DEF PromiseStep, Fates, TakenKeys
<1>2. CASE Taken(key, kind, ref)
  <2>1. TakenKeys' = Append(TakenKeys, key)
      BY <1>2, TakenKeysAppend
  <2>2. UNCHANGED Fates
      BY DEF Fates
  <2>3. \/ Fates[key] = "basket"
        \/ (Fates[key] = "single" /\ ~\E i \in DOMAIN TakenKeys : TakenKeys[i] = key)
      BY UsedKeys DEF Fates, Fate
  <2>q. QED BY <2>1, <2>2, <2>3 DEF PromiseStep
<1>q. QED BY <1>1, <1>2

\* Every step of the records is a step of the promise, or none.
LEMMA StepKeepsPromise == TypeOK /\ OwnerInv /\ [Next]_vars => PromiseStep
<1> SUFFICES ASSUME TypeOK, OwnerInv, [Next]_vars PROVE PromiseStep
    OBVIOUS
<1>1. CASE UNCHANGED <<rows, taken>>
    BY <1>1 DEF PromiseStep, Fates, TakenKeys
<1>2. CASE Reserve \/ ReserveBasket
  <2>1. request.at = "reserve" /\ (Insert \/ UNCHANGED rows) /\ UNCHANGED taken
      BY <1>2 DEF Reserve, ReserveBasket, kite
  <2>q. QED BY <2>1, InsertClaims
<1>3. CASE Submit
  <2>1. /\ request.at = "submit" /\ request.key \in Keys /\ request.kind \in Kinds
        /\ request.ref \in Nat /\ UNCHANGED rows
        /\ rows[request.key].kind \in {"pending-order", "pending-modify"}
        /\ \A i \in DOMAIN taken : taken[i].key # request.key
      BY <1>3, RequestTypes DEF Submit, Keep, OwnerInv, GateHolderOwns, Row
  <2>2. Taken(request.key, request.kind, request.ref) \/ UNCHANGED taken
      BY <1>3 DEF Submit
  <2>q. QED BY <2>1, <2>2, TakenTakes
<1>4. CASE Complete
    BY <1>4, UpdateConfirms DEF Complete
<1>5. ASSUME NEW b \in baskets, Leg(b) PROVE PromiseStep
  <2>1. b.key \in Keys /\ b.ref \in Nat /\ rows[b.key].kind = "basket"
    <3>1. rows[b.key] = [kind |-> "basket", ref |-> b.ref]
        BY DEF OwnerInv, DeploymentsOwn
    <3>q. QED BY <3>1 DEF TypeOK
  <2>2. UNCHANGED rows /\ (Taken(b.key, "basket", b.ref) \/ UNCHANGED taken)
      BY <1>5, LegEffect
  <2>q. QED BY <2>1, <2>2, TakenTakes DEF Kinds
<1>6. \/ UNCHANGED <<rows, taken>> \/ Reserve \/ ReserveBasket \/ Submit \/ Complete
      \/ \E b \in baskets : Leg(b)
    BY DEF Next, Begin, Lookup, ReadOrders, StartBasket, EndBasket, Poll, Crash, kite, vars
<1>q. QED BY <1>1, <1>2, <1>3, <1>4, <1>5, <1>6

\* The records keep OncePerKey's promise, for every key and across every crash.
THEOREM IdempotencyKeepsPromise == Spec => KeepsKeys
<1>1. Init => Promise!Init
  <2> SUFFICES ASSUME Init PROVE Promise!Init
      OBVIOUS
  <2>1. Fates = [k \in Keys |-> "unused"]
      BY DEF Init, Fates, Fate, NoRow
  <2>2. TakenKeys = <<>>
      BY DEF Init, TakenKeys
  <2>q. QED BY <2>1, <2>2 DEF Promise!Init, Fates, TakenKeys
<1>2. PromiseStep => [Promise!Next]_<<Fates, TakenKeys>>
    BY DEF PromiseStep, Promise!Next, Promise!Claim, Promise!Take, Promise!Confirm, Promise!Used,
           Fates, TakenKeys
<1>3. TypeOK /\ OwnerInv /\ [Next]_vars => [Promise!Next]_<<Fates, TakenKeys>>
    BY <1>2, StepKeepsPromise
<1>q. QED BY <1>1, <1>3, Owners, PTL DEF Spec, KeepsKeys, Promise!Spec, Fates, TakenKeys

===============================================================================
