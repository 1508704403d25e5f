---------------------------- MODULE SaverProofs ----------------------------
(***************************************************************************)
(* Proofs about the clients of the in-memory saver, for any threads,       *)
(* channels, values, slots and number of checkpoints: no operation changes *)
(* what a stored checkpoint reads as, a prune loses neither the newest     *)
(* checkpoint nor a stored write, and a copy reads as its source.          *)
(***************************************************************************)
EXTENDS SaverClient, HistoryProofs

\* The inductive invariant: ids come from the clock, a parent is older than
\* its child, and a record names versions that were handed out; a thread
\* without a record has no blob; the tables are the functions EXCEPT needs.
SaverInv ==
    /\ clock \in 0..MaxId
    /\ records = [t \in Threads |-> records[t]]
    /\ blobs = [t \in Threads |-> blobs[t]]
    /\ writes = [t \in Threads |-> [id \in Ids |-> writes[t][id]]]
    /\ \A t \in Threads :
         /\ DOMAIN records[t] \subseteq 1..clock
         /\ DOMAIN records[t] = {} => DOMAIN blobs[t] = {}
         /\ \A id \in DOMAIN records[t] :
              /\ records[t][id].parent \in 0..(id - 1)
              /\ records[t][id].versions \in [Channels -> 0..clock]

\* The checkpoints of t that stay have the same record, writes and values,
\* and a parent that is stored as it was before.
Stays(t) ==
    \A id \in DOMAIN records[t] \cap DOMAIN records'[t] :
        LET parent == records[t][id].parent IN
        /\ records'[t][id] = records[t][id]
        /\ writes'[t][id] = writes[t][id]
        /\ parent \in DOMAIN records[t] <=> parent \in DOMAIN records'[t]
        /\ \A ch \in Channels :
             LET key == <<ch, records[t][id].versions[ch]>> IN
             /\ key \in DOMAIN blobs[t] <=> key \in DOMAIN blobs'[t]
             /\ key \in DOMAIN blobs[t] => blobs'[t][key] = blobs[t][key]

\* Such a checkpoint reads as before.
LEMMA StaysReads ==
    ASSUME SaverInv, SaverInv', NEW t \in Threads, Stays(t),
           NEW id \in DOMAIN records[t] \cap DOMAIN records'[t]
    PROVE  Reading(t, id)' = Reading(t, id)
<1> USE MaxIdAssumption
<1>1. Backward(records[t]) /\ Backward(records'[t])
  BY DEF SaverInv, Backward
<1>2. \A ch \in Channels : \A c \in DOMAIN records[t] \cap DOMAIN records'[t] :
        LET key == <<ch, records[t][c].versions[ch]>> IN
        /\ records'[t][c] = records[t][c]
        /\ Resolves(records[t][c], blobs[t], ch) <=> Resolves(records'[t][c], blobs'[t], ch)
        /\ Resolves(records[t][c], blobs[t], ch) => blobs[t][key].value = blobs'[t][key].value
  BY DEF Stays, Resolves
<1>3. ASSUME NEW ch \in Channels
      PROVE  History(records'[t], blobs'[t], writes'[t], ch)[records[t][id].parent]
               = History(records[t], blobs[t], writes[t], ch)[records[t][id].parent]
  <2> DEFINE S == {c \in 0..MaxId : c \in DOMAIN records[t] <=> c \in DOMAIN records'[t]}
  <2>1. \A c \in S \cap DOMAIN records[t] : c \in DOMAIN records[t] \cap DOMAIN records'[t]
    OBVIOUS
  <2>2. \A c \in S \cap DOMAIN records[t] :
          Alike(records[t], blobs[t], writes[t], records'[t], blobs'[t], writes'[t], ch, c)
    BY <1>2, <2>1, SMTT(30) DEF Stays, Alike
  <2>3. \A c \in DOMAIN records[t] \cap DOMAIN records'[t] : records[t][c].parent \in S
    <3>1. \A c \in DOMAIN records[t] : records[t][c].parent \in 0..MaxId
      BY DEF SaverInv
    <3> QED BY <3>1 DEF Stays
  <2>4. S \in SUBSET (0..MaxId) /\ \A c \in S : c \in DOMAIN records[t] <=> c \in DOMAIN records'[t]
    OBVIOUS
  <2> HIDE DEF S
  <2>5. AlikeOn(S, records[t], blobs[t], writes[t], records'[t], blobs'[t], writes'[t], ch)
    BY <1>1, <2>1, <2>2, <2>3, <2>4, Zenon DEF AlikeOn
  <2>6. \A c \in S : History(records[t], blobs[t], writes[t], ch)[c]
                       = History(records'[t], blobs'[t], writes'[t], ch)[c]
    BY <2>5, HistoriesAgree
  <2> QED BY <2>3, <2>6
<1>4. records'[t][id] = records[t][id] /\ writes'[t][id] = writes[t][id]
  BY DEF Stays
<1>5. [ch \in Channels |-> GetDeltaChannelHistory(t, id, ch)]'
        = [ch \in Channels |-> GetDeltaChannelHistory(t, id, ch)]
  BY <1>3, <1>4 DEF GetDeltaChannelHistory
<1>6. [ch \in Channels |-> PendingWrites(t, id, ch)]'
        = [ch \in Channels |-> PendingWrites(t, id, ch)]
  BY <1>4 DEF PendingWrites
<1>7. [ch \in {x \in Channels : Present(t, id, x)} |-> ChannelValue(t, id, ch)]'
        = [ch \in {x \in Channels : Present(t, id, x)} |-> ChannelValue(t, id, ch)]
  BY <1>2, <1>4, Zenon DEF Present, ChannelValue
<1> QED BY <1>4, <1>5, <1>6, <1>7 DEF Reading

\* Latest is the greatest stored id.
LEMMA LatestIsGreatest ==
    ASSUME SaverInv, NEW t \in Threads, DOMAIN records[t] # {}
    PROVE  Latest(t) \in DOMAIN records[t] /\ \A id \in DOMAIN records[t] : id <= Latest(t)
<1>1. clock \in Nat /\ DOMAIN records[t] \subseteq 0..clock
  BY MaxIdAssumption DEF SaverInv
<1>2. \E m \in DOMAIN records[t] : \A id \in DOMAIN records[t] : id <= m
  BY <1>1, NatGreatest
<1> QED BY <1>1, <1>2 DEF Latest, Max

\* Put adds a checkpoint under a new id with blobs under a new version, and
\* leaves everything else as it is.
LEMMA PutStep ==
    ASSUME SaverInv, NEW t \in Threads, NEW parent \in DOMAIN records[t] \cup {0},
           NEW new \in SUBSET Channels, NEW values, ClientPut(t, parent, new, values)
    PROVE  /\ SaverInv' /\ clock' # clock /\ \A u \in Threads : Stays(u)
           /\ \A u \in Threads : DOMAIN records[u] \subseteq DOMAIN records'[u]
<1> DEFINE id == clock'
           keys == new \X {id}
           base == IF Has(t, parent) THEN records[t][parent].versions ELSE Unversioned
           versions == [ch \in Channels |-> IF ch \in new THEN id ELSE base[ch]]
           record == [parent |-> parent, versions |-> versions, meta |-> "meta"]
           table == [c \in DOMAIN records[t] \cup {id} |->
                        IF c = id THEN record ELSE records[t][c]]
           blob(key) == IF key \notin keys THEN blobs[t][key]
                        ELSE IF key[1] \in DOMAIN values
                        THEN [present |-> TRUE, value |-> values[key[1]]]
                        ELSE [present |-> FALSE, value |-> Absent]
           kept == [key \in DOMAIN blobs[t] \cup keys |-> blob(key)]
<1> USE MaxIdAssumption
<1>1. id = clock + 1 /\ id \in 1..MaxId /\ clock \in 0..MaxId
  BY DEF ClientPut, NewID, SaverInv
<1>2. /\ records' = [records EXCEPT ![t] = table]
      /\ blobs' = [blobs EXCEPT ![t] = kept]
      /\ writes' = writes
  BY Zenon DEF ClientPut, Put
<1>3. versions \in [Channels -> 0..id]
  <2>1. base \in [Channels -> 0..clock]
    BY <1>1 DEF SaverInv, Has, Unversioned
  <2> HIDE DEF base
  <2> QED BY <1>1, <2>1
<1>4. record.parent = parent /\ record.versions = versions
  BY Zenon
<1>5. DOMAIN records[t] \subseteq 1..clock /\ parent \in 0..(id - 1)
  BY <1>1 DEF SaverInv
<1>6. /\ DOMAIN table = DOMAIN records[t] \cup {id}
      /\ \A c \in DOMAIN records[t] : table[c] = records[t][c]
      /\ table[id] = record
  <2> HIDE DEF record
  <2> QED BY <1>1, <1>5
<1>7. \A c \in DOMAIN records[t], ch \in Channels :
        LET key == <<ch, records[t][c].versions[ch]>> IN
        /\ key \in DOMAIN kept <=> key \in DOMAIN blobs[t]
        /\ key \in DOMAIN blobs[t] => kept[key] = blobs[t][key]
  <2> SUFFICES ASSUME NEW c \in DOMAIN records[t], NEW ch \in Channels
               PROVE  LET key == <<ch, records[t][c].versions[ch]>> IN
                      /\ key \in DOMAIN kept <=> key \in DOMAIN blobs[t]
                      /\ key \in DOMAIN blobs[t] => kept[key] = blobs[t][key]
    BY Zenon
  <2>1. records[t][c].versions[ch] # id
    BY <1>1 DEF SaverInv
  <2>2. <<ch, records[t][c].versions[ch]>> \notin keys
    BY <2>1
  <2> HIDE DEF keys
  <2> QED BY <2>2
<1> HIDE DEF record, versions, table, kept
<1>8. /\ records' = [u \in Threads |-> IF u = t THEN table ELSE records[u]]
      /\ blobs' = [u \in Threads |-> IF u = t THEN kept ELSE blobs[u]]
  BY <1>2, Zenon DEF SaverInv
<1>9. SaverInv'
  <2>1. clock' \in 0..MaxId
    BY <1>1
  <2>2. /\ records' = [u \in Threads |-> records'[u]]
        /\ blobs' = [u \in Threads |-> blobs'[u]]
        /\ writes' = [u \in Threads |-> [c \in Ids |-> writes'[u][c]]]
    <3>1. records' = [u \in Threads |-> records'[u]] /\ blobs' = [u \in Threads |-> blobs'[u]]
      BY <1>8
    <3> QED BY <1>2, <3>1 DEF SaverInv
  <2>3. ASSUME NEW u \in Threads, u # t
        PROVE  /\ DOMAIN records'[u] \subseteq 1..clock'
               /\ DOMAIN records'[u] = {} => DOMAIN blobs'[u] = {}
               /\ \A c \in DOMAIN records'[u] :
                    /\ records'[u][c].parent \in 0..(c - 1)
                    /\ records'[u][c].versions \in [Channels -> 0..clock']
    <3>1. records'[u] = records[u] /\ blobs'[u] = blobs[u]
      BY <1>8, <2>3
    <3>2. 1..clock \subseteq 1..clock' /\ 0..clock \subseteq 0..clock'
      BY <1>1
    <3>3. [Channels -> 0..clock] \subseteq [Channels -> 0..clock']
      BY <3>2
    <3> QED BY <3>1, <3>2, <3>3 DEF SaverInv
  <2>4. /\ DOMAIN table \subseteq 1..clock' /\ DOMAIN table # {}
        /\ \A c \in DOMAIN table : /\ table[c].parent \in 0..(c - 1)
                                    /\ table[c].versions \in [Channels -> 0..clock']
    <3>1. 1..clock \subseteq 1..clock' /\ 0..clock \subseteq 0..clock'
      BY <1>1
    <3>2. [Channels -> 0..clock] \subseteq [Channels -> 0..clock']
      BY <3>1
    <3>3. \A c \in DOMAIN records[t] : /\ records[t][c].parent \in 0..(c - 1)
                                        /\ records[t][c].versions \in [Channels -> 0..clock]
      BY DEF SaverInv
    <3> QED BY <1>1, <1>3, <1>4, <1>5, <1>6, <3>1, <3>2, <3>3
  <2> QED BY <1>8, <2>1, <2>2, <2>3, <2>4 DEF SaverInv
<1>10. ASSUME NEW u \in Threads
       PROVE  Stays(u) /\ DOMAIN records[u] \subseteq DOMAIN records'[u]
  <2>1. CASE u # t
    BY <1>2, <1>8, <2>1 DEF Stays
  <2>2. CASE u = t
    <3>1. \A c \in DOMAIN records[t] : records[t][c].parent # id
      BY <1>1 DEF SaverInv
    <3> QED BY <1>2, <1>6, <1>7, <1>8, <2>2, <3>1 DEF Stays
  <2> QED BY <2>1, <2>2
<1> QED BY <1>1, <1>9, <1>10

\* PutWrites keeps every record and blob, and every write of another thread.
LEMMA PutWritesStep ==
    ASSUME SaverInv, NEW t \in Threads, NEW id, NEW slot, NEW ch, NEW value,
           ClientPutWrites(t, id, slot, ch, value)
    PROVE  /\ SaverInv' /\ records' = records /\ blobs' = blobs /\ clock' = clock
           /\ \A u \in Threads : Stays(u) \/ (u = t /\ id \in DOMAIN records[t])
           /\ \A u \in Threads : \A c \in DOMAIN records[u] : \A s \in DOMAIN writes[u][c] :
                 s[2] >= 0 => s \in DOMAIN writes'[u][c] /\ writes'[u][c][s] = writes[u][c][s]
           /\ id \in Ids => slot \in DOMAIN writes'[t][id]
           /\ \A c \in Ids \ {id} : writes'[t][c] = writes[t][c]
<1> DEFINE slotted == [s \in {slot} |-> [channel |-> ch, value |-> value, by |-> 0]]
           merged == [s \in DOMAIN writes[t][id] \cup DOMAIN slotted |->
                        IF s \in DOMAIN writes[t][id] /\ (s \notin DOMAIN slotted \/ s[2] >= 0)
                        THEN writes[t][id][s] ELSE slotted[s]]
<1> USE MaxIdAssumption
<1>1. /\ records' = records /\ blobs' = blobs /\ clock' = clock
      /\ writes' = [writes EXCEPT ![t][id] = merged]
  BY Zenon DEF ClientPutWrites, PutWrites
<1>2. /\ slot \in DOMAIN merged
      /\ \A s \in DOMAIN writes[t][id] :
            s[2] >= 0 => s \in DOMAIN merged /\ merged[s] = writes[t][id][s]
  <2>1. slot \in DOMAIN slotted
    BY Zenon
  <2> HIDE DEF slotted
  <2> QED BY <2>1
<1> HIDE DEF merged
<1>3. \A u \in Threads, c \in Ids :
        writes'[u][c] = IF u = t /\ c = id THEN merged ELSE writes[u][c]
  BY <1>1 DEF SaverInv
<1>4. SaverInv'
  <2>1. writes' = [u \in Threads |-> [c \in Ids |-> writes'[u][c]]]
    BY <1>1, Zenon DEF SaverInv
  <2> QED BY <1>1, <2>1, SMTT(30) DEF SaverInv
<1>5. \A u \in Threads : DOMAIN records[u] \subseteq Ids
  BY DEF SaverInv, Ids
<1>6. \A u \in Threads : Stays(u) \/ (u = t /\ id \in DOMAIN records[t])
  BY <1>1, <1>3, <1>5 DEF Stays
<1>7. \A u \in Threads : \A c \in DOMAIN records[u] : \A s \in DOMAIN writes[u][c] :
        s[2] >= 0 => s \in DOMAIN writes'[u][c] /\ writes'[u][c][s] = writes[u][c][s]
  BY <1>2, <1>3, <1>5
<1> QED BY <1>1, <1>2, <1>3, <1>4, <1>6, <1>7

\* Delete empties its thread and leaves the others alone.
LEMMA DeleteStep ==
    ASSUME SaverInv, NEW t \in Threads, ClientDelete(t)
    PROVE  /\ SaverInv' /\ DOMAIN records'[t] = {} /\ clock' = clock
           /\ \A u \in Threads : u # t => records'[u] = records[u]
           /\ \A u \in Threads : Stays(u)
<1> USE MaxIdAssumption
<1>1. /\ writes' = [writes EXCEPT ![t] =
             [id \in Ids |-> IF Has(t, id) THEN None ELSE writes[t][id]]]
      /\ records' = [records EXCEPT ![t] = None]
      /\ blobs' = [blobs EXCEPT ![t] = None]
      /\ clock' = clock
  BY Zenon DEF ClientDelete, DeleteThread
<1>2. DOMAIN None = {}
  BY Zenon DEF None
<1>3. /\ records' = [u \in Threads |-> IF u = t THEN None ELSE records[u]]
      /\ blobs' = [u \in Threads |-> IF u = t THEN None ELSE blobs[u]]
  BY <1>1, Zenon DEF SaverInv
<1>4. writes' = [u \in Threads |-> [c \in Ids |-> writes'[u][c]]]
  BY <1>1, Zenon DEF SaverInv
<1>5. \A u \in Threads : u # t => writes'[u] = writes[u]
  BY <1>1 DEF SaverInv
<1>6. SaverInv'
  BY <1>1, <1>2, <1>3, <1>4, Zenon DEF SaverInv
<1> QED BY <1>1, <1>2, <1>3, <1>5, <1>6 DEF Stays

\* Copy fills an empty thread and leaves the others alone.
LEMMA CopyStep ==
    ASSUME SaverInv, NEW source \in Threads, NEW target \in Threads, ClientCopy(source, target)
    PROVE  /\ SaverInv' /\ clock' = clock /\ source # target
           /\ DOMAIN records[target] = {} /\ records'[target] = records[source]
           /\ DOMAIN blobs'[target] = DOMAIN blobs[source]
           /\ \A key \in DOMAIN blobs[source] : blobs'[target][key] = blobs[source][key]
           /\ \A id \in DOMAIN records[source] :
                 writes[target][id] = None => writes'[target][id] = writes[source][id]
           /\ \A u \in Threads : u # target => records'[u] = records[u]
           /\ \A u \in Threads : Stays(u)
<1> DEFINE table == [id \in Ids |-> IF Has(source, id) /\ writes[source][id] # None
                                    THEN writes[source][id] ELSE writes[target][id]]
           joined == [key \in DOMAIN blobs[target] \cup DOMAIN blobs[source] |->
                        IF key \in DOMAIN blobs[source] THEN blobs[source][key]
                        ELSE blobs[target][key]]
<1> USE MaxIdAssumption
<1>1. /\ source # target /\ DOMAIN records[target] = {} /\ DOMAIN records[source] # {}
      /\ records' = [records EXCEPT ![target] = records[source]]
      /\ writes' = [writes EXCEPT ![target] = table]
      /\ blobs' = [blobs EXCEPT ![target] = joined]
      /\ clock' = clock
  BY Zenon DEF ClientCopy, CopyThread
<1>2. DOMAIN blobs[target] = {}
  BY <1>1 DEF SaverInv
<1>3. /\ DOMAIN joined = DOMAIN blobs[source]
      /\ \A key \in DOMAIN blobs[source] : joined[key] = blobs[source][key]
  BY <1>2
<1>4. DOMAIN records[source] \subseteq Ids
  BY DEF SaverInv, Ids
<1>5. \A id \in DOMAIN records[source] :
        writes[target][id] = None => table[id] = writes[source][id]
  BY <1>4, Zenon DEF Has
<1>6. table = [id \in Ids |-> table[id]]
  BY Zenon
<1> HIDE DEF table, joined
<1>7. /\ records' = [u \in Threads |-> IF u = target THEN records[source] ELSE records[u]]
      /\ blobs' = [u \in Threads |-> IF u = target THEN joined ELSE blobs[u]]
      /\ writes' = [u \in Threads |-> IF u = target THEN table ELSE writes[u]]
  BY <1>1, Zenon DEF SaverInv
<1>8. writes' = [u \in Threads |-> [c \in Ids |-> writes'[u][c]]]
  BY <1>6, <1>7 DEF SaverInv
<1>9. SaverInv'
  BY <1>1, <1>7, <1>8, Zenon DEF SaverInv
<1>10. \A u \in Threads : Stays(u)
  BY <1>1, <1>7 DEF Stays
<1> QED BY <1>1, <1>3, <1>5, <1>7, <1>9, <1>10

\* The ancestry of a stored checkpoint holds it and is closed under stored
\* parents.
LEMMA AncestryFacts ==
    ASSUME NEW t, NEW id \in DOMAIN records[t]
    PROVE  /\ id \in Ancestry(t, id) /\ Ancestry(t, id) \subseteq DOMAIN records[t]
           /\ \A c \in Ancestry(t, id) :
                 records[t][c].parent \in DOMAIN records[t]
                     => records[t][c].parent \in Ancestry(t, id)
BY Zenon DEF Ancestry

\* Prune keeps the newest checkpoint with its ancestors as they are, and
\* leaves the other threads alone.
LEMMA PruneStep ==
    ASSUME SaverInv, NEW t \in Threads, ClientPrune(t)
    PROVE  /\ SaverInv' /\ clock' = clock
           /\ \A u \in Threads : DOMAIN records'[u] \subseteq DOMAIN records[u]
           /\ \A u \in Threads : u # t => records'[u] = records[u]
           /\ \A id \in DOMAIN records[t] : \E c \in DOMAIN records'[t] : c >= id
           /\ \A u \in Threads : Stays(u)
<1> DEFINE keep == Ancestry(t, Latest(t))
           referenced == {<<ch, records[t][c].versions[ch]>> : ch \in Channels, c \in keep}
           table == [c \in keep |-> records[t][c]]
           pending == [id \in Ids |-> IF Has(t, id) /\ id \notin keep THEN None
                                      ELSE writes[t][id]]
           kept == [key \in DOMAIN blobs[t] \cap referenced |-> blobs[t][key]]
<1> USE MaxIdAssumption
<1>1. /\ DOMAIN records[t] # {}
      /\ records' = [records EXCEPT ![t] = table]
      /\ writes' = [writes EXCEPT ![t] = pending]
      /\ blobs' = [blobs EXCEPT ![t] = kept]
      /\ clock' = clock
  BY DEF ClientPrune, Prune
<1>2. Latest(t) \in DOMAIN records[t] /\ \A id \in DOMAIN records[t] : id <= Latest(t)
  BY <1>1, LatestIsGreatest
<1>3. /\ Latest(t) \in keep /\ keep \subseteq DOMAIN records[t]
      /\ \A c \in keep : records[t][c].parent \in DOMAIN records[t] => records[t][c].parent \in keep
  BY <1>2, AncestryFacts
<1>4. \A c \in keep, ch \in Channels : <<ch, records[t][c].versions[ch]>> \in referenced
  OBVIOUS
<1> HIDE DEF keep, referenced
<1>5. DOMAIN table = keep /\ \A c \in keep : table[c] = records[t][c]
  BY Zenon
<1>6. \A c \in keep : c \in Ids => pending[c] = writes[t][c]
  BY Zenon
<1>7. pending = [id \in Ids |-> pending[id]]
  BY Zenon
<1>8. \A c \in keep, ch \in Channels :
        LET key == <<ch, records[t][c].versions[ch]>> IN
        /\ key \in DOMAIN blobs[t] <=> key \in DOMAIN kept
        /\ key \in DOMAIN blobs[t] => kept[key] = blobs[t][key]
  BY <1>4, Zenon
<1> HIDE DEF table, pending, kept
<1>9. /\ records' = [u \in Threads |-> IF u = t THEN table ELSE records[u]]
      /\ blobs' = [u \in Threads |-> IF u = t THEN kept ELSE blobs[u]]
      /\ writes' = [u \in Threads |-> IF u = t THEN pending ELSE writes[u]]
  BY <1>1, Zenon DEF SaverInv
<1>10. writes' = [u \in Threads |-> [c \in Ids |-> writes'[u][c]]]
  BY <1>7, <1>9 DEF SaverInv
<1>11. SaverInv'
  BY <1>1, <1>3, <1>5, <1>9, <1>10, ZenonT(30) DEF SaverInv
<1>12. keep \subseteq Ids /\ \A c \in keep : c \in Nat
  BY <1>3 DEF SaverInv, Ids
<1>13. \A u \in Threads : Stays(u)
  BY <1>3, <1>5, <1>6, <1>8, <1>9, <1>12 DEF Stays
<1>14. \A id \in DOMAIN records[t] : \E c \in DOMAIN records'[t] : c >= id
  <2>1. \A id \in DOMAIN records[t] : id \in Nat
    BY DEF SaverInv
  <2> QED BY <1>2, <1>3, <1>5, <1>9, <2>1
<1> QED BY <1>1, <1>3, <1>5, <1>9, <1>11, <1>13, <1>14

\* A copied thread reads as its source.
LEMMA CopyReads ==
    ASSUME SaverInv, NEW source \in Threads, NEW target \in Threads, ClientCopy(source, target),
           \A c \in Ids : writes[target][c] = None,
           NEW id \in DOMAIN records[source]
    PROVE  Reading(target, id)' = Reading(source, id)
<1> USE MaxIdAssumption
<1>1. /\ SaverInv'
      /\ records'[target] = records[source]
      /\ DOMAIN blobs'[target] = DOMAIN blobs[source]
      /\ \A key \in DOMAIN blobs[source] : blobs'[target][key] = blobs[source][key]
      /\ \A c \in DOMAIN records[source] :
            writes[target][c] = None => writes'[target][c] = writes[source][c]
  BY CopyStep
<1>2. DOMAIN records[source] \subseteq Ids
  BY DEF SaverInv, Ids
<1>3. \A c \in DOMAIN records[source] : writes'[target][c] = writes[source][c]
  BY <1>1, <1>2
<1>4. \A c \in DOMAIN records[source], ch \in Channels :
        LET key == <<ch, records[source][c].versions[ch]>> IN
        /\ Resolves(records[source][c], blobs[source], ch)
             <=> Resolves(records'[target][c], blobs'[target], ch)
        /\ Resolves(records[source][c], blobs[source], ch)
             => blobs[source][key].value = blobs'[target][key].value
  BY <1>1 DEF Resolves
<1>5. Backward(records[source]) /\ Backward(records'[target])
  BY <1>1 DEF SaverInv, Backward
<1>6. ASSUME NEW ch \in Channels
      PROVE  History(records'[target], blobs'[target], writes'[target], ch)[records[source][id].parent]
               = History(records[source], blobs[source], writes[source], ch)[records[source][id].parent]
  <2> DEFINE S == 0..MaxId
  <2>1. \A c \in S \cap DOMAIN records[source] :
          Alike(records[source], blobs[source], writes[source],
                records'[target], blobs'[target], writes'[target], ch, c)
    BY <1>1, <1>3, <1>4 DEF Alike
  <2>2. \A c \in DOMAIN records[source] : records[source][c].parent \in S
    BY DEF SaverInv
  <2>3. S \in SUBSET (0..MaxId)
        /\ \A c \in S : c \in DOMAIN records[source] <=> c \in DOMAIN records'[target]
    BY <1>1
  <2> HIDE DEF S
  <2>4. AlikeOn(S, records[source], blobs[source], writes[source],
                records'[target], blobs'[target], writes'[target], ch)
    BY <1>5, <2>1, <2>2, <2>3, Zenon DEF AlikeOn
  <2>5. \A c \in S : History(records[source], blobs[source], writes[source], ch)[c]
                       = History(records'[target], blobs'[target], writes'[target], ch)[c]
    BY <2>4, HistoriesAgree
  <2> QED BY <2>2, <2>5
<1>7. [ch \in Channels |-> GetDeltaChannelHistory(target, id, ch)]'
        = [ch \in Channels |-> GetDeltaChannelHistory(source, id, ch)]
  BY <1>1, <1>6 DEF GetDeltaChannelHistory
<1>8. [ch \in Channels |-> PendingWrites(target, id, ch)]'
        = [ch \in Channels |-> PendingWrites(source, id, ch)]
  BY <1>3 DEF PendingWrites
<1>9. [ch \in {x \in Channels : Present(target, id, x)} |-> ChannelValue(target, id, ch)]'
        = [ch \in {x \in Channels : Present(source, id, x)} |-> ChannelValue(source, id, ch)]
  BY <1>1, <1>4, ZenonT(30) DEF Present, ChannelValue
<1> QED BY <1>1, <1>7, <1>8, <1>9 DEF Reading
-----------------------------------------------------------------------------
LEMMA InitSaver == ClientInit => SaverInv
<1>1. DOMAIN None = {}
  BY Zenon DEF None
<1> QED BY <1>1, MaxIdAssumption DEF ClientInit, SaverInit, SaverInv

\* A step of the clients is one of these five.
LEMMA NextCases ==
    ASSUME ClientNext
    PROVE  \E t \in Threads :
             \/ \E parent \in DOMAIN records[t] \cup {0}, new \in SUBSET Channels :
                  \E given \in SUBSET new : \E values \in [given -> Vals] :
                      ClientPut(t, parent, new, values)
             \/ \E id \in seen[t], slot \in Slots, ch \in Channels, value \in Written :
                  ClientPutWrites(t, id, slot, ch, value)
             \/ ClientDelete(t)
             \/ \E target \in Threads : ClientCopy(t, target)
             \/ ClientPrune(t)
BY Zenon DEF ClientNext

LEMMA NextSaver == SaverInv /\ [ClientNext]_clientVars => SaverInv'
<1> SUFFICES ASSUME SaverInv, [ClientNext]_clientVars PROVE SaverInv'
  OBVIOUS
<1>1. CASE ClientNext
  BY <1>1, NextCases, PutStep, PutWritesStep, DeleteStep, CopyStep, PruneStep
<1>2. CASE UNCHANGED clientVars
  BY <1>2, Zenon DEF clientVars, SaverInv
<1> QED BY <1>1, <1>2

\* Whatever the clients do in between, the reading of a checkpoint that stays
\* stored only changes by a write to it or to one of its ancestors (memory.go
\* Put, Prune, CopyThread, DeleteThread, PutWrites).
THEOREM ReadingsStable == ClientSpec => ReadingStable
<1> DEFINE A == \A t \in Threads :
                  (\A id \in DOMAIN records[t] : writes'[t][id] \in {writes[t][id], None}) =>
                      \A id \in DOMAIN records[t] \cap DOMAIN records'[t] :
                          Reading(t, id)' = Reading(t, id)
<1>1. SaverInv /\ SaverInv' /\ [ClientNext]_clientVars => [A]_clientVars
  <2> SUFFICES ASSUME SaverInv, SaverInv', ClientNext,
                      NEW u \in Threads,
                      \A id \in DOMAIN records[u] : writes'[u][id] \in {writes[u][id], None}
               PROVE  Stays(u)
    BY StaysReads
  <2>1. PICK t \in Threads :
          \/ \E parent \in DOMAIN records[t] \cup {0}, new \in SUBSET Channels :
               \E given \in SUBSET new : \E values \in [given -> Vals] :
                   ClientPut(t, parent, new, values)
          \/ \E id \in seen[t], slot \in Slots, ch \in Channels, value \in Written :
               ClientPutWrites(t, id, slot, ch, value)
          \/ ClientDelete(t)
          \/ \E target \in Threads : ClientCopy(t, target)
          \/ ClientPrune(t)
    BY NextCases, Zenon
  <2>2. CASE \E id \in seen[t], slot \in Slots, ch \in Channels, value \in Written :
               ClientPutWrites(t, id, slot, ch, value)
    <3>1. PICK id \in seen[t], slot \in Slots, ch \in Channels, value \in Written :
            ClientPutWrites(t, id, slot, ch, value)
      BY <2>2
    <3>2. CASE u = t /\ id \in DOMAIN records[t]
      <4>1. id \in Ids /\ DOMAIN records[t] \subseteq Ids
        BY <3>2, MaxIdAssumption DEF SaverInv, Ids
      <4>2. /\ slot \in DOMAIN writes'[t][id] /\ records' = records /\ blobs' = blobs
            /\ \A c \in Ids \ {id} : writes'[t][c] = writes[t][c]
        BY <3>1, <4>1, PutWritesStep
      <4>3. DOMAIN None = {}
        BY Zenon DEF None
      <4>4. writes'[t][id] = writes[t][id]
        BY <3>2, <4>2, <4>3
      <4> QED BY <3>2, <4>1, <4>2, <4>4 DEF Stays
    <3> QED BY <3>1, <3>2, PutWritesStep
  <2> QED BY <2>1, <2>2, PutStep, DeleteStep, CopyStep, PruneStep, Zenon
<1> QED BY <1>1, InitSaver, NextSaver, PTL DEF ClientSpec, ReadingStable

\* A prune or a copy never loses the newest checkpoint of a thread, and a
\* stored write is never replaced while its checkpoint is stored (memory.go
\* Prune, CopyThread, PutWrites).
THEOREM NewestKept == ClientSpec => StoredKept
<1> DEFINE Newest(t) == DOMAIN records'[t] # {} =>
                          \A id \in DOMAIN records[t] : \E c \in DOMAIN records'[t] : c >= id
           Kept(t) == \A id \in DOMAIN records[t] \cap DOMAIN records'[t] :
                        \A s \in DOMAIN writes[t][id] :
                            s[2] >= 0 => s \in DOMAIN writes'[t][id]
                                         /\ writes'[t][id][s] = writes[t][id][s]
           A == \A t \in Threads :
                  /\ DOMAIN records'[t] # {} =>
                        \A id \in DOMAIN records[t] : \E c \in DOMAIN records'[t] : c >= id
                  /\ \A id \in DOMAIN records[t] \cap DOMAIN records'[t] :
                        \A s \in DOMAIN writes[t][id] :
                            s[2] >= 0 => s \in DOMAIN writes'[t][id]
                                         /\ writes'[t][id][s] = writes[t][id][s]
<1>1. SaverInv /\ [ClientNext]_clientVars => [A]_clientVars
  <2> SUFFICES ASSUME SaverInv, ClientNext, NEW u \in Threads
               PROVE  Newest(u) /\ Kept(u)
    BY Zenon
  <2>1. \A id \in DOMAIN records[u] : id >= id
    BY DEF SaverInv
  <2>2. ASSUME DOMAIN records[u] \subseteq DOMAIN records'[u] PROVE Newest(u)
    BY <2>1, <2>2
  <2>3. ASSUME Stays(u) PROVE Kept(u)
    BY <2>3 DEF Stays
  <2>4. PICK t \in Threads :
          \/ \E parent \in DOMAIN records[t] \cup {0}, new \in SUBSET Channels :
               \E given \in SUBSET new : \E values \in [given -> Vals] :
                   ClientPut(t, parent, new, values)
          \/ \E id \in seen[t], slot \in Slots, ch \in Channels, value \in Written :
               ClientPutWrites(t, id, slot, ch, value)
          \/ ClientDelete(t)
          \/ \E target \in Threads : ClientCopy(t, target)
          \/ ClientPrune(t)
    BY NextCases, Zenon
  <2>5. CASE \E parent \in DOMAIN records[t] \cup {0}, new \in SUBSET Channels :
               \E given \in SUBSET new : \E values \in [given -> Vals] :
                   ClientPut(t, parent, new, values)
    <3>1. Stays(u) /\ DOMAIN records[u] \subseteq DOMAIN records'[u]
      BY <2>5, PutStep, Zenon
    <3> HIDE DEF Newest, Kept
    <3> QED BY <2>2, <2>3, <3>1
  <2>6. CASE \E id \in seen[t], slot \in Slots, ch \in Channels, value \in Written :
               ClientPutWrites(t, id, slot, ch, value)
    <3>1. /\ records' = records
          /\ \A c \in DOMAIN records[u] : \A s \in DOMAIN writes[u][c] :
                s[2] >= 0 => s \in DOMAIN writes'[u][c] /\ writes'[u][c][s] = writes[u][c][s]
      BY <2>6, PutWritesStep
    <3>2. Kept(u)
      BY <3>1
    <3> QED BY <2>2, <3>1, <3>2
  <2>7. CASE ClientDelete(t)
    <3>1. Stays(u) /\ (DOMAIN records'[u] = {} \/ records'[u] = records[u])
      BY <2>7, DeleteStep
    <3> QED BY <2>2, <2>3, <3>1
  <2>8. CASE \E target \in Threads : ClientCopy(t, target)
    <3>1. Stays(u) /\ (DOMAIN records[u] = {} \/ records'[u] = records[u])
      BY <2>8, CopyStep
    <3> QED BY <2>2, <2>3, <3>1
  <2>9. CASE ClientPrune(t)
    <3>1. /\ Stays(u)
          /\ u = t => \A id \in DOMAIN records[u] : \E c \in DOMAIN records'[u] : c >= id
          /\ u # t => records'[u] = records[u]
      BY <2>9, PruneStep
    <3> QED BY <2>2, <2>3, <3>1
  <2> HIDE DEF Newest, Kept
  <2> QED BY <2>4, <2>5, <2>6, <2>7, <2>8, <2>9
<1> QED BY <1>1, InitSaver, NextSaver, PTL DEF ClientSpec, StoredKept

\* A copied thread reads exactly as its source, if no write of a deleted run
\* was left in the target (memory.go CopyThread).
THEOREM CopiesFaithful == ClientSpec => CopyFaithful
<1> DEFINE Faithful(t) ==
             CopiedTo(t) /\ (\A id \in Ids : writes[t][id] = None) =>
                 \E s \in Threads \ {t} :
                     /\ DOMAIN records'[t] = DOMAIN records[s]
                     /\ \A id \in DOMAIN records[s] : Reading(t, id)' = Reading(s, id)
<1>1. SaverInv /\ [ClientNext]_clientVars => [\A t \in Threads : Faithful(t)]_clientVars
  <2> SUFFICES ASSUME SaverInv, ClientNext, NEW u \in Threads,
                      CopiedTo(u), \A id \in Ids : writes[u][id] = None
               PROVE  \E s \in Threads \ {u} :
                        /\ DOMAIN records'[u] = DOMAIN records[s]
                        /\ \A id \in DOMAIN records[s] : Reading(u, id)' = Reading(s, id)
    OBVIOUS
  <2>1. DOMAIN records[u] = {} /\ DOMAIN records'[u] # {} /\ clock' = clock
    BY DEF CopiedTo
  <2>2. PICK t \in Threads :
          \/ \E parent \in DOMAIN records[t] \cup {0}, new \in SUBSET Channels :
               \E given \in SUBSET new : \E values \in [given -> Vals] :
                   ClientPut(t, parent, new, values)
          \/ \E id \in seen[t], slot \in Slots, ch \in Channels, value \in Written :
               ClientPutWrites(t, id, slot, ch, value)
          \/ ClientDelete(t)
          \/ \E target \in Threads : ClientCopy(t, target)
          \/ ClientPrune(t)
    BY NextCases, Zenon
  <2>3. ~ \E parent \in DOMAIN records[t] \cup {0}, new \in SUBSET Channels :
            \E given \in SUBSET new : \E values \in [given -> Vals] :
                ClientPut(t, parent, new, values)
    BY <2>1, PutStep
  <2>4. ~ \E id \in seen[t], slot \in Slots, ch \in Channels, value \in Written :
            ClientPutWrites(t, id, slot, ch, value)
    BY <2>1, PutWritesStep
  <2>5. ~ ClientDelete(t)
    BY <2>1, DeleteStep
  <2>6. ~ ClientPrune(t)
    BY <2>1, PruneStep
  <2>7. PICK target \in Threads : ClientCopy(t, target)
    BY <2>2, <2>3, <2>4, <2>5, <2>6, Zenon
  <2>8. target = u
    BY <2>1, <2>7, CopyStep
  <2>9. t # u /\ records'[u] = records[t]
    BY <2>7, <2>8, CopyStep
  <2>10. \A id \in DOMAIN records[t] : Reading(u, id)' = Reading(t, id)
    BY <2>7, <2>8, CopyReads
  <2> QED BY <2>9, <2>10
<1> QED BY <1>1, InitSaver, NextSaver, PTL DEF ClientSpec, CopyFaithful
=============================================================================
