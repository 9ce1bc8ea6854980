----------------------------- MODULE RedisCache -----------------------------
(***************************************************************************)
(* The distributed artifact cache (RedisCache): processes that share one   *)
(* Redis server.  Every command to the server is atomic and is one step;   *)
(* an operation is several.  An entry is stored under its key, and its key *)
(* is listed in a set kept for the hash of its value, by which             *)
(* invalidate_by_hash finds it.  The server drops an entry that has a time *)
(* to live; the entry also tells its own deadline.                         *)
(***************************************************************************)
EXTENDS Naturals, FiniteSets

CONSTANTS
    Process,
    Key,
    Value        \* values; a value stands for its hash

NoValue == "none"
ASSUME RedisAssumption == NoValue \notin Value /\ Key \cap Value = {}

VARIABLES
    store,      \* store[k]: the entry under key k
    index,      \* index[v]: the keys listed for the hash of v
    busy,       \* busy[p]: the next command of the operation p is in
    onKey,      \* the key it is about
    copy,       \* the entry it has read, or is about to write
    todo,       \* what an invalidation or a clear has still to delete
    mixed       \* history: operations overlapped, or one was cut short

redisVars == <<store, index, busy, onKey, copy, todo, mixed>>

(* deadline: whether expires_at is never, to come or past; kept: whether   *)
(* the entry has no time to live with the server.                          *)
Entry   == [value : Value, deadline : {"never", "later", "past"}, kept : BOOLEAN]
NoEntry == [value |-> NoValue, deadline |-> "never", kept |-> TRUE]

Steps == {"idle", "ttl", "rewrite", "drop", "index", "unindex", "delete",
          "invalidate", "dropIndex", "clear"}

RedisTypeOK ==
    /\ store \in [Key -> Entry \cup {NoEntry}]
    /\ index \in [Value -> SUBSET Key]
    /\ busy \in [Process -> Steps]
    /\ onKey \in [Process -> Key]
    /\ copy \in [Process -> Entry \cup {NoEntry}]
    /\ todo \in [Process -> SUBSET (Key \cup Value)]
    /\ mixed \in BOOLEAN

-----------------------------------------------------------------------------
RedisInit ==
    /\ store = [k \in Key |-> NoEntry]
    /\ index = [v \in Value |-> {}]
    /\ busy = [p \in Process |-> "idle"]
    /\ onKey \in [Process -> Key]
    /\ copy = [p \in Process |-> NoEntry]
    /\ todo = [p \in Process |-> {}]
    /\ mixed = FALSE

(* An operation begins with its first command and goes on at `step`.       *)
Begin(p, k, entry, keys, step) ==
    /\ busy[p] = "idle"
    /\ busy' = [busy EXCEPT ![p] = step]
    /\ onKey' = [onKey EXCEPT ![p] = k]
    /\ copy' = [copy EXCEPT ![p] = entry]
    /\ todo' = [todo EXCEPT ![p] = keys]
    /\ mixed' = (mixed \/ \E q \in Process \ {p} : busy[q] # "idle")

GoOn(p, step) ==
    /\ busy' = [busy EXCEPT ![p] = step]
    /\ copy' = [copy EXCEPT ![p] = IF step = "idle" THEN NoEntry ELSE @]
    /\ UNCHANGED <<onKey, todo, mixed>>

Put(k, entry) == store' = [store EXCEPT ![k] = entry]

(* get of an entry: its own deadline is checked, though the server drops   *)
(* what has a time to live.  (A key that is not there is only a miss.)     *)
Get(p, k) ==
    /\ store[k] # NoEntry
    /\ Begin(p, k, store[k], {}, IF store[k].deadline = "past" THEN "drop" ELSE "ttl")
    /\ UNCHANGED <<store, index>>

DropExpired(p) ==
    /\ busy[p] = "drop"
    /\ Put(onKey[p], NoEntry)
    /\ GoOn(p, "idle")
    /\ UNCHANGED <<index>>

(* The time that is left is asked for: none if the entry is kept for good, *)
(* or is not there any more, or has less than a second.                    *)
AskTtl(p) ==
    /\ busy[p] = "ttl"
    /\ busy' = [busy EXCEPT ![p] = "rewrite"]
    /\ \E kept \in {store[onKey[p]].kept, TRUE} : copy' = [copy EXCEPT ![p].kept = kept]
    /\ UNCHANGED <<store, index, onKey, todo, mixed>>

(* The entry that was read is written back with its new hit count, over    *)
(* whatever is there by now, and returned.                                 *)
Rewrite(p) ==
    /\ busy[p] = "rewrite"
    /\ Put(onKey[p], copy[p])
    /\ GoOn(p, "idle")
    /\ UNCHANGED <<index>>

(* set; with a ttl under a second int() makes 0 of it, the server refuses  *)
(* and nothing changes.                                                    *)
Set(p, k, v, ttl) ==
    LET entry == [value |-> v, deadline |-> IF ttl THEN "later" ELSE "never", kept |-> ~ttl] IN
    /\ Begin(p, k, entry, {}, "index")
    /\ Put(k, entry)
    /\ UNCHANGED <<index>>

(* An index that takes the key of an old value for listed.                 *)
AddToIndexOnce(p) ==
    /\ busy[p] = "index"
    /\ index' = IF \E v \in Value : onKey[p] \in index[v] THEN index
                ELSE [index EXCEPT ![copy[p].value] = @ \cup {onKey[p]}]
    /\ GoOn(p, "idle")
    /\ UNCHANGED <<store>>

AddToIndex(p) ==
    /\ busy[p] = "index"
    /\ index' = [index EXCEPT ![copy[p].value] = @ \cup {onKey[p]}]
    /\ GoOn(p, "idle")
    /\ UNCHANGED <<store>>

(* delete reads the entry for its hash, takes the key off the index of     *)
(* that hash, and deletes.                                                 *)
BeginDelete(p, k) ==
    /\ Begin(p, k, store[k], {}, IF store[k] = NoEntry THEN "delete" ELSE "unindex")
    /\ UNCHANGED <<store, index>>

Unindex(p) ==
    /\ busy[p] = "unindex"
    /\ index' = [index EXCEPT ![copy[p].value] = @ \ {onKey[p]}]
    /\ GoOn(p, "delete")
    /\ UNCHANGED <<store>>

Delete(p) ==
    /\ busy[p] = "delete"
    /\ Put(onKey[p], NoEntry)
    /\ GoOn(p, "idle")
    /\ UNCHANGED <<index>>

(* invalidate_by_hash reads the index, deletes one key after another,      *)
(* whatever value it has by now, and the index in the end.                 *)
BeginInvalidate(p, v) ==
    /\ index[v] # {}
    /\ \E k \in Key :
         Begin(p, k, [value |-> v, deadline |-> "never", kept |-> TRUE], index[v], "invalidate")
    /\ UNCHANGED <<store, index>>

Invalidate(p, k) ==
    /\ busy[p] = "invalidate"
    /\ k \in todo[p]
    /\ Put(k, NoEntry)
    /\ todo' = [todo EXCEPT ![p] = @ \ {k}]
    /\ busy' = [busy EXCEPT ![p] = IF todo[p] = {k} THEN "dropIndex" ELSE @]
    /\ UNCHANGED <<index, onKey, copy, mixed>>

DropIndex(p) ==
    /\ busy[p] = "dropIndex"
    /\ index' = [index EXCEPT ![copy[p].value] = {}]
    /\ GoOn(p, "idle")
    /\ UNCHANGED <<store>>

(* clear scans for everything with its prefix, indexes included, and       *)
(* deletes what it found by one command.                                   *)
BeginClear(p) ==
    /\ \E k \in Key :
         Begin(p, k, NoEntry, {j \in Key : store[j] # NoEntry}
                                \cup {v \in Value : index[v] # {}}, "clear")
    /\ UNCHANGED <<store, index>>

Clear(p) ==
    /\ busy[p] = "clear"
    /\ store' = [k \in Key |-> IF k \in todo[p] THEN NoEntry ELSE store[k]]
    /\ index' = [v \in Value |-> IF v \in todo[p] THEN {} ELSE index[v]]
    /\ busy' = [busy EXCEPT ![p] = "idle"]
    /\ todo' = [todo EXCEPT ![p] = {}]
    /\ UNCHANGED <<onKey, copy, mixed>>

(* The server or the network fails: the operation is given up, silently.   *)
Fail(p) ==
    /\ busy[p] # "idle"
    /\ busy' = [busy EXCEPT ![p] = "idle"]
    /\ copy' = [copy EXCEPT ![p] = NoEntry]
    /\ todo' = [todo EXCEPT ![p] = {}]
    /\ mixed' = TRUE
    /\ UNCHANGED <<store, index, onKey>>

(* Time passes: every deadline to come is past, and the server has dropped *)
(* what had a time to live.                                                *)
Age(entry) == [entry EXCEPT !.deadline = IF @ = "later" THEN "past" ELSE @]

TimePasses ==
    /\ store' = [k \in Key |-> IF store[k].kept THEN Age(store[k]) ELSE NoEntry]
    /\ copy' = [p \in Process |-> Age(copy[p])]
    /\ UNCHANGED <<index, busy, onKey, todo, mixed>>

RedisNext ==
    \/ \E p \in Process :
        \/ \E k \in Key :
            \/ Get(p, k) \/ BeginDelete(p, k) \/ Invalidate(p, k)
            \/ \E v \in Value, ttl \in BOOLEAN : Set(p, k, v, ttl)
        \/ \E v \in Value : BeginInvalidate(p, v)
        \/ AskTtl(p) \/ Rewrite(p) \/ DropExpired(p) \/ AddToIndex(p)
        \/ Unindex(p) \/ Delete(p) \/ DropIndex(p)
        \/ BeginClear(p) \/ Clear(p) \/ Fail(p)
    \/ TimePasses

RedisSpec == RedisInit /\ [][RedisNext]_redisVars

-----------------------------------------------------------------------------
(* Properties *)

(* Invalidation finds everything: as long as operations did not overlap    *)
(* and none was cut short, every entry is listed under its own hash,       *)
(* however often keys were set anew, deleted, invalidated or expired.      *)
AllIndexed ==
    ~mixed /\ (\A p \in Process : busy[p] = "idle") =>
        \A k \in Key : store[k] # NoEntry => k \in index[store[k].value]
=============================================================================
