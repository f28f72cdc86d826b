-------------------------------- MODULE Dict --------------------------------
(***************************************************************************)
(* hiredis/dict.c: the hash table of the subscription callbacks. A table   *)
(* is a function from slots to chains, a chain a sequence of entries, its  *)
(* head first; entries are named by their key, which is unique. An         *)
(* iterator is at a slot, has handed out an entry and has read the next    *)
(* one of its chain in advance, as its user may delete the entry it got.   *)
(***************************************************************************)
EXTENDS Integers, SequencesExt

CONSTANTS Keys, Values,
          Hash,                 \* callbackHash, in [Keys -> Nat]
          DICT_HT_INITIAL_SIZE, \* a power of two
          NotFound              \* a NULL entry

VARIABLES table,  \* its domain is 0..size - 1
          used, answer,
          iter,   \* the iterator, if there is one
          before, seen \* history: the keys when it was made, those it has handed out

hashVars == <<table, used, answer, iter, before, seen>>

HashRight == /\ Hash \in [Keys -> Nat]
             /\ DICT_HT_INITIAL_SIZE \in Nat \ {0}
             /\ NotFound \notin Keys

NoIter == [index |-> 0, entry |-> NotFound, next |-> NotFound, open |-> FALSE]
Size(t) == Cardinality(DOMAIN t)
HashInit == /\ table = << >> /\ used = 0 /\ answer = TRUE
            /\ iter = NoIter /\ before = {} /\ seen = << >>

-----------------------------------------------------------------------------
Slot(k, n) == Hash[k] % n  \* hash & sizemask
Entries(t) == FlattenSeq([i \in 1..Size(t) |-> t[i - 1]])

(* dictExpand moves the entries in the order of the old table, each to the  *)
(* head of its new chain.                                                   *)
Pushed(t, e) == [t EXCEPT ![Slot(e.key, Size(t))] = <<e>> \o @]
dictExpand(t, n) ==
  LET all == Entries(t)
      moved[i \in 0..Len(all)] == IF i = 0 THEN [s \in 0..n - 1 |-> << >>]
                                  ELSE Pushed(moved[i - 1], all[i])
  IN  moved[Len(all)]

(* _dictExpandIfNeeded *)
Expanded == CASE Size(table) = 0 -> dictExpand(table, DICT_HT_INITIAL_SIZE)
              [] Size(table) = used /\ used > 0 -> dictExpand(table, 2 * used)
              [] OTHER -> table

(* Where key k is in a chain, 0 if it is not there. *)
Found(chain, k) == SelectInSeq(chain, LAMBDA e : e.key = k)
There(t, k) == Size(t) # 0 /\ Found(t[Slot(k, Size(t))], k) # 0
Entry(k, v) == [key |-> k, val |-> v]

(* dictAdd on the expanded table t; the key may be there already. *)
Added(t, k, v) ==
  IF There(t, k) THEN t ELSE Pushed(t, Entry(k, v))
Changed(t, k, v) ==
  [t EXCEPT ![Slot(k, Size(t))] = [@ EXCEPT ![Found(@, k)] = Entry(k, v)]]
RemovedRest(t, k) ==  \* Mutant
  [t EXCEPT ![Slot(k, Size(t))] = SubSeq(@, 1, Found(@, k) - 1)]
Removed(t, k) == [t EXCEPT ![Slot(k, Size(t))] = RemoveAt(@, Found(@, k))]

-----------------------------------------------------------------------------
Iterator == UNCHANGED <<iter, before, seen>>

(* While an iterator is open only the entry it handed out may go. *)
dictAdd(k, v) ==
  /\ ~iter.open
  /\ table' = Added(Expanded, k, v)
  /\ answer' = ~There(table, k)
  /\ used' = IF There(table, k) THEN used ELSE used + 1
  /\ Iterator

dictReplace(k, v) ==
  /\ ~iter.open
  /\ LET t == Added(Expanded, k, v)
     IN  table' = IF There(table, k) THEN Changed(t, k, v) ELSE t
  /\ answer' = ~There(table, k)
  /\ used' = IF There(table, k) THEN used ELSE used + 1
  /\ Iterator

dictDelete(k) ==
  /\ iter.open => k = iter.entry
  /\ table' = IF There(table, k) THEN Removed(table, k) ELSE table
  /\ answer' = There(table, k)
  /\ used' = IF There(table, k) THEN used - 1 ELSE used
  /\ Iterator

dictFind(k) ==
  /\ answer' = IF There(table, k)
               THEN LET chain == table[Slot(k, Size(table))]
                    IN  chain[Found(chain, k)].val
               ELSE NotFound
  /\ UNCHANGED <<table, used>> /\ Iterator

(* _dictClear and dictRelease. *)
dictClear == /\ ~iter.open
             /\ table' = << >> /\ used' = 0 /\ answer' = TRUE
             /\ Iterator

-----------------------------------------------------------------------------
Stored(t) == UNION {ToSet(t[s]) : s \in DOMAIN t}
dictGetIterator == /\ ~iter.open
                   /\ iter' = [NoIter EXCEPT !.index = -1, !.open = TRUE]
                   /\ before' = {e.key : e \in Stored(table)} /\ seen' = << >>
                   /\ UNCHANGED <<table, used, answer>>

(* The entry after e in its chain, and the first entry from slot s on. *)
FollowingLost(chain, k) == NotFound  \* Mutant
Following(chain, k) ==
  LET i == Found(chain, k)
  IN  IF i < Len(chain) THEN chain[i + 1].key ELSE NotFound
FullFrom(s) == {i \in DOMAIN table : i >= s /\ table[i] # << >>}

HandOut(i, k) == /\ iter' = [index |-> i, entry |-> k, open |-> TRUE,
                             next |-> Following(table[i], k)]
                 /\ seen' = Append(seen, k)
dictNext ==
  /\ iter.open
  /\ IF iter.entry # NotFound /\ iter.next # NotFound THEN HandOut(iter.index, iter.next)
     ELSE IF FullFrom(iter.index + 1) # {}
          THEN LET i == Min(FullFrom(iter.index + 1)) IN HandOut(i, table[i][1].key)
          ELSE iter' = NoIter /\ UNCHANGED seen  \* NULL, and dictReleaseIterator
  /\ UNCHANGED <<table, used, answer, before>>

HashNext == \/ \E k \in Keys : \/ dictDelete(k) \/ dictFind(k)
                               \/ \E v \in Values : dictAdd(k, v) \/ dictReplace(k, v)
            \/ dictClear \/ dictGetIterator \/ dictNext
HashSpec == HashInit /\ [][HashNext]_hashVars

-----------------------------------------------------------------------------
(* Types; used counts the entries, and a key is in the chain of its slot,   *)
(* once.                                                                    *)
HashTypeOK == /\ \A s \in DOMAIN table :
                    /\ table[s] \in Seq([key : Keys, val : Values])
                    /\ \A i \in DOMAIN table[s] :
                         /\ Slot(table[s][i].key, Size(table)) = s
                         /\ Found(table[s], table[s][i].key) = i
              /\ used = Cardinality(Stored(table))

(* The table is a map, whatever it was expanded or deleted from. *)
Content == LET all == Stored(table)
           IN  [k \in {e.key : e \in all} |-> (CHOOSE e \in all : e.key = k).val]
Map == INSTANCE KeyMap WITH map <- Content
ImplementsMap == Map!Spec

(* An iterator hands out every key that was there once, even when its user  *)
(* deletes the entries it is given (__redisAsyncFree); the table it walks   *)
(* counts its entries and has each in the chain of its slot, once.          *)
HandsOutOnce == /\ Cardinality(ToSet(seen)) = Len(seen) /\ ToSet(seen) \subseteq before
                /\ ~iter.open => ToSet(seen) = before
SeesEachOnce == HandsOutOnce /\ HashTypeOK
=============================================================================
