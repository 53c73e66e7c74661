------------------------------ MODULE FeeConfig ------------------------------
(* config.service.ts: the fee configuration and the fee tiers in the       *)
(* database, a copy of each in the memory of every replica, readers that   *)
(* fill the copies, administrators who change the rows and then drop the   *)
(* copies of the replica that served them, and the check a starting        *)
(* replica makes.  A request is where its async function waits; readers    *)
(* come for ever, administrators and restarts MaxCalls times.              *)
EXTENDS Integers, Sequences, FiniteSets

CONSTANTS
    Replica,
    MaxCalls,        \* bound: requests at once, and administrators' calls and restarts
    NumTiers,
    WHOLE,           \* 100% in the units of the portions
    InitialConfig, InitialTier, DefaultConfig, DefaultTiers,
    ConfigChanges,   \* what administrators ask of the configuration
    TierChanges,     \* and of a tier: some of its columns
    Reads            \* bound: the caches readers ask, in the code each of them

Part == {"charityPortion", "kindswapPortion", "rebatePortion", "stakingPortion"}
ConfigColumn == Part \union {"baseFeeBps", "wallets"}
TierColumn == {"discountPercent", "effectiveFeeBps", "isActive"}   \* 1 for true
Call == 1 .. MaxCalls
Tier == 1 .. NumTiers
ConfigId == 0                       \* the id of the configuration's row
Id == Tier \union {ConfigId}
CacheKey == {"fee_configuration", "fee_tiers"}

ConfigRow == [ConfigColumn -> Nat]
TierRow == [TierColumn -> Nat]
Total(row) == row.charityPortion + row.kindswapPortion + row.rebatePortion + row.stakingPortion
IsChange(ch, columns) == DOMAIN ch \subseteq columns /\ ch \in [DOMAIN ch -> Nat]

ASSUME ConfigAssumption ==
    /\ Replica # {} /\ MaxCalls \in Nat /\ NumTiers \in Nat \ {0} /\ WHOLE \in Nat
    /\ Reads \subseteq Replica \X CacheKey
    /\ {InitialConfig, DefaultConfig} \subseteq ConfigRow
    /\ Total(InitialConfig) = WHOLE /\ Total(DefaultConfig) = WHOLE
    /\ InitialTier \in [Tier -> TierRow]
    /\ \A t \in Tier : InitialTier[t].discountPercent \in 0 .. 100
    /\ InitialConfig.baseFeeBps > 0
    /\ \A ch \in ConfigChanges :
          /\ IsChange(ch, ConfigColumn)
          /\ "baseFeeBps" \in DOMAIN ch => ch.baseFeeBps > 0
    /\ \A ch \in TierChanges :
          /\ IsChange(ch, TierColumn)
          /\ "discountPercent" \in DOMAIN ch => ch.discountPercent <= 100

VARIABLES
    rows,      \* fee_configuration and fee_tiers
    cache,     \* of each replica, what it holds under each key
    request    \* the requests

configVars == <<rows, cache, request>>

CallStep == {"new", "fetch", "store", "validate", "find", "select", "update", "tiers",
             "forget config", "forget tiers", "sync", "over"}
Nothing == [s \in {} |-> 0]
IdleCall(step) ==
    [step |-> step, rest |-> IF step = "new" THEN "new" ELSE "over", 
     replica |-> CHOOSE r \in Replica : TRUE, key |-> "fee_tiers", got |-> {},
     todo |-> <<>>, base |-> 0, syncs |-> FALSE,
     entity |-> Nothing, changed |-> {}]

ConfigInit ==
    /\ rows = [i \in Id |-> IF i = ConfigId THEN InitialConfig ELSE InitialTier[i]]
    /\ cache = [r \in Replica |-> [k \in CacheKey |-> {}]]
    /\ request = [c \in Call |-> IdleCall("new")]

Waits(c, step) == request[c].step = step
Arrives(c) == Waits(c, "new") /\ \A b \in Call : b < c => ~Waits(b, "new")
GoOn(c, step) == request' = [request EXCEPT ![c].step = step]

(* A request that is over can be a reader once more, but an administrator's *)
(* call or a restart only if it was none before.                            *)
Over(c) == request' = [request EXCEPT ![c] = IdleCall(request[c].rest)]

-----------------------------------------------------------------------------
(* getFeeConfiguration, getFeeTiers *)
Active == {t \in Tier : rows[t].isActive = 1}

Stored(k) ==
    CASE k = "fee_configuration" -> rows[ConfigId]
      [] k = "fee_tiers" /\ Active # {} -> [t \in Active |-> rows[t]]
      [] OTHER -> DefaultTiers
Default(k) == IF k = "fee_configuration" THEN DefaultConfig ELSE DefaultTiers

AtRest(c) == Waits(c, "new") \/ Waits(c, "over")

(* Mutant: a copy that is served is stored again, to keep it for longer.   *)
GetRefreshing(c) ==
    /\ AtRest(c)
    /\ \E r \in Replica, k \in CacheKey :
          /\ <<r, k>> \in Reads
          /\ request' = [request EXCEPT
                ![c].step = IF cache[r][k] = {} THEN "fetch" ELSE "store",
                ![c].replica = r, ![c].key = k, ![c].got = cache[r][k]]
    /\ UNCHANGED <<rows, cache>>

(* A reader whom the cache has an answer for changes nothing. *)
Get(c) ==
    /\ AtRest(c)
    /\ \E r \in Replica, k \in CacheKey :
          /\ <<r, k>> \in Reads /\ cache[r][k] = {}
          /\ request' = [request EXCEPT ![c].step = "fetch", ![c].replica = r, ![c].key = k]
    /\ UNCHANGED <<rows, cache>>

Answered(c, v) ==
    /\ Waits(c, "fetch")
    /\ request' = [request EXCEPT ![c].step = "store", ![c].got = {v}]
    /\ UNCHANGED <<rows, cache>>

Fetch(c) == Answered(c, Stored(request[c].key))

(* When the SELECT fails the defaults are taken instead. *)
FetchFails(c) == Answered(c, Default(request[c].key))

Store(c) ==
    /\ Waits(c, "store")
    /\ cache' = [cache EXCEPT ![request[c].replica][request[c].key] = request[c].got]
    /\ Over(c)
    /\ UNCHANGED rows

Expire(r, k) ==
    /\ cache[r][k] # {}
    /\ cache' = [cache EXCEPT ![r][k] = {}]
    /\ UNCHANGED <<rows, request>>

-----------------------------------------------------------------------------
(* An administrator's call: the rows it will save, one after the other.    *)
Asks(c, step, todo) ==
    \E r \in Replica :
        request' = [request EXCEPT ![c].step = step, ![c].rest = "over",
                                   ![c].replica = r, ![c].todo = todo]

Task(id, change) == [id |-> id, change |-> change]

updateFeeConfiguration(c) ==
    /\ Arrives(c)
    /\ \E ch \in ConfigChanges : Asks(c, "validate", <<Task(ConfigId, ch)>>)
    /\ UNCHANGED <<rows, cache>>

updateFeeTier(c) ==
    /\ Arrives(c)
    /\ \E t \in Tier, ch \in TierChanges : Asks(c, "find", <<Task(t, ch)>>)
    /\ UNCHANGED <<rows, cache>>

(* The row is saved a second time for the sake of the audit record. *)
deactivateOrActivateTier(c) ==
    /\ Arrives(c)
    /\ \E t \in Tier, a \in {0, 1} :
          Asks(c, "find", <<Task(t, [isActive |-> a]), Task(t, Nothing)>>)
    /\ UNCHANGED <<rows, cache>>

(* What is given replaces what the row holds. *)
Merged(change, row) == [f \in DOMAIN row |-> IF f \in DOMAIN change THEN change[f] ELSE row[f]]

(* The portions given, merged with those of the row, make 100%.            *)
Validate(c) ==
    /\ Waits(c, "validate")
    /\ IF Total(Merged(Head(request[c].todo).change, rows[ConfigId])) = WHOLE
         THEN GoOn(c, "find") ELSE Over(c)
    /\ UNCHANGED <<rows, cache>>

(* updateConfiguration and updateTier: find the entity, change it, save    *)
(* it; save selects the row once more and updates what differs.            *)
Find(c) ==
    LET task == Head(request[c].todo) IN
    /\ Waits(c, "find")
    /\ request' = [request EXCEPT ![c].step = "select",
                                  ![c].entity = Merged(task.change, rows[task.id])]
    /\ UNCHANGED <<rows, cache>>

Select(c) ==
    LET row == rows[Head(request[c].todo).id]  e == request[c].entity IN
    /\ Waits(c, "select")
    /\ request' = [request EXCEPT ![c].step = "update",
                                  ![c].changed = {f \in DOMAIN e : e[f] # row[f]}]
    /\ UNCHANGED <<rows, cache>>

(* The row as the UPDATE leaves it. *)
Written(q, row) == [f \in DOMAIN row |-> IF f \in q.changed THEN q.entity[f] ELSE row[f]]

(* Mutant: the table has no CHECK. *)
NoCheck(id, row) == TRUE

(* chk_fee_portions_sum_100 *)
Check(id, row) == id = ConfigId => Total(row) = WHOLE

(* What follows a saved row: the tiers when the base fee was given, the    *)
(* next row, or the caches; a starting replica leaves those alone.         *)
After(q) ==
    LET task == Head(q.todo)
        saved == [q EXCEPT !.entity = Nothing, !.changed = {}]
    IN
    IF "baseFeeBps" \in DOMAIN task.change
      THEN [saved EXCEPT !.step = "tiers", !.todo = <<>>, !.base = task.change.baseFeeBps]
      ELSE [saved EXCEPT !.todo = Tail(@), !.step =
               IF Len(q.todo) > 1 THEN "find" ELSE IF q.syncs THEN "over" ELSE "forget config"]

Update(c) ==
    LET q == request[c]
        task == Head(q.todo)
        row == Written(q, rows[task.id])
    IN
    /\ Waits(c, "update")
    /\ IF Check(task.id, row)
         THEN /\ rows' = [rows EXCEPT ![task.id] = row]
              /\ request' = [request EXCEPT ![c] = After(q)]
         ELSE Over(c) /\ UNCHANGED rows
    /\ UNCHANGED cache

(* In hundredths of a basis point. *)
DiscountedFee(base, percent) == base * (100 - percent)

(* recalculateTierFees: the active tiers in their order. *)
TierOrder(S) ==
    CHOOSE s \in [1 .. Cardinality(S) -> S] : \A i, j \in DOMAIN s : i < j => s[i] < s[j]
Recalculation(base) ==
    [i \in 1 .. Cardinality(Active) |->
        LET t == TierOrder(Active)[i]
        IN  Task(t, [effectiveFeeBps |-> DiscountedFee(base, rows[t].discountPercent)])]

Tiers(c) ==
    LET q == request[c] IN
    /\ Waits(c, "tiers")
    /\ request' = [request EXCEPT ![c].todo = Recalculation(q.base), ![c].base = 0, ![c].step =
                      IF Active # {} THEN "find" ELSE IF q.syncs THEN "over" ELSE "forget config"]
    /\ UNCHANGED <<rows, cache>>

Forget(c) ==
    \/ /\ Waits(c, "forget config")
       /\ cache' = [cache EXCEPT ![request[c].replica]["fee_configuration"] = {}]
       /\ GoOn(c, "forget tiers")
       /\ UNCHANGED rows
    \/ /\ Waits(c, "forget tiers")
       /\ cache' = [cache EXCEPT ![request[c].replica]["fee_tiers"] = {}]
       /\ Over(c)
       /\ UNCHANGED rows

-----------------------------------------------------------------------------
(* A replica starts over: its memory and its requests are gone, and its    *)
(* constructor begins to check the tiers, awaiting nothing.                *)
Restart(c) ==
    /\ Arrives(c)
    /\ \E r \in Replica :
          /\ cache' = [cache EXCEPT ![r] = [k \in CacheKey |-> {}]]
          /\ request' = [b \in Call |->
                IF b = c THEN [IdleCall("sync") EXCEPT !.replica = r, !.syncs = TRUE]
                ELSE IF request[b].replica = r THEN IdleCall(request[b].rest)
                ELSE request[b]]
    /\ UNCHANGED rows

OutOfSync(base) ==
    \E t \in Active : rows[t].effectiveFeeBps # DiscountedFee(base, rows[t].discountPercent)

(* validateAndSyncTiers: the base fee is read, and then the tiers; when    *)
(* one disagrees all are recalculated.                                     *)
ReadBase(c) ==
    /\ Waits(c, "sync") /\ request[c].base = 0
    /\ request' = [request EXCEPT ![c].base = rows[ConfigId].baseFeeBps]
    /\ UNCHANGED <<rows, cache>>

ReadTiers(c) ==
    /\ Waits(c, "sync") /\ request[c].base # 0
    /\ IF OutOfSync(request[c].base) THEN GoOn(c, "tiers") ELSE Over(c)
    /\ UNCHANGED <<rows, cache>>

(* An await throws: what was saved stays, the caches are not dropped. *)
Throw(c) ==
    /\ ~AtRest(c)
    /\ Over(c)
    /\ UNCHANGED <<rows, cache>>

Go(c) ==
    \/ Fetch(c) \/ FetchFails(c) \/ Store(c) \/ Validate(c) \/ Find(c) \/ Select(c) \/ Update(c)
    \/ Tiers(c) \/ Forget(c) \/ ReadBase(c) \/ ReadTiers(c)

ConfigNext ==
    \/ \E c \in Call :
          \/ Get(c) \/ updateFeeConfiguration(c) \/ updateFeeTier(c)
          \/ deactivateOrActivateTier(c) \/ Restart(c)
          \/ Go(c) \/ Throw(c)
    \/ \E r \in Replica, k \in CacheKey : Expire(r, k)

(* Every await ends, and what is in a cache for its time to live is gone.  *)
ConfigSpec ==
    /\ ConfigInit /\ [][ConfigNext]_configVars
    /\ \A c \in Call : WF_configVars(Go(c))
    /\ \A r \in Replica, k \in CacheKey : WF_configVars(Expire(r, k))

-----------------------------------------------------------------------------
(* Properties *)

ConfigTypeOK ==
    /\ rows[ConfigId] \in ConfigRow /\ \A t \in Tier : rows[t] \in TierRow
    /\ \A r \in Replica, k \in CacheKey : Cardinality(cache[r][k]) <= 1
    /\ \A c \in Call : /\ request[c].step \in CallStep
                       /\ request[c].step \in {"find", "select", "update"} => request[c].todo # <<>>

(* "charityPortion + kindswapPortion + rebatePortion + stakingPortion =    *)
(* 1.0" (config.service.ts:267): in the table and in what every replica    *)
(* serves, although the sum is validated on another read than the one the  *)
(* portions are saved into.                                                *)
PortionsWhole ==
    /\ Total(rows[ConfigId]) = WHOLE
    /\ \A r \in Replica : \A v \in cache[r]["fee_configuration"] : Total(v) = WHOLE

(* When administrators leave the tables alone and no SELECT fails any      *)
(* more, every replica comes to serve what the tables hold, for good, to    *)
(* readers who never stop asking: what a slow reader or a failed SELECT put *)
(* into a cache after the last invalidation (config.service.ts:138-150)     *)
(* goes, and no reader brings it back.                                      *)
Served(r, k) ==
    cache[r][k] \union
        UNION {request[c].got : c \in {b \in Call : /\ Waits(b, "store")
                                                  /\ request[b].replica = r /\ request[b].key = k}}
Fresh == \A r \in Replica, k \in CacheKey : Served(r, k) \subseteq {Stored(k)}
SelectsSucceed == [][\A c \in Call : FetchFails(c) => Fetch(c)]_configVars
CachesSettle == <>SelectsSucceed => <>[]Fresh
=============================================================================
