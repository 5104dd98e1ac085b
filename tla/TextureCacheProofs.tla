-------------------------- MODULE TextureCacheProofs --------------------------
(***************************************************************************)
(* Proofs about TextureCache for any textures and files: the state is well *)
(* formed, a texture whose count no update and no test went wrong for is   *)
(* deleted when nobody has it and not before, and a file is loaded into    *)
(* one texture.                                                            *)
(*                                                                         *)
(* As long as the two threads do not meet on its count, the count of a     *)
(* texture is the number of those that have a reference to it, whatever    *)
(* they are in the middle of; it is 0 when the texture is deleted or       *)
(* exactly one thread is about to delete it. A live texture with a name is *)
(* the one the cache has under that name, or the one getTexture is about   *)
(* to put there.                                                           *)
(***************************************************************************)
EXTENDS TextureCache, SequenceFacts

-----------------------------------------------------------------------------
(* Who has a texture.                                                       *)

Queued(t) == \E i \in 1 .. Len(queue) : queue[i] = t
Called(t) == \E i \in 1 .. Len(pending) : pending[i] = t

MainHas(t) == main.at \notin Loops /\ main.tex = t
LoaderHas(t) == loader.at \notin {"wait", "take"} /\ loader.tex = t

\* The references of the loading thread and of the main thread ...
Carried(t) ==
    loader.at \in {"decode", "schedule", "retainStore", "release", "releaseStore"} /\ loader.tex = t
Unscheduled(t) == loader.at \in {"decode", "schedule", "retainStore"} /\ loader.tex = t
Inserting(t) == main.at = "insert" /\ main.tex = t
Releases(t) == main.at = "releaseStore" /\ main.tex = t

\* ... the one the game is about to have, and the threads about to delete.
Keeping(t) == main.at = "retainStore" /\ main.tex = t
MainDeletes(t) ==
    /\ main.at = "destroy" \/ (main.at = "releaseTest" /\ main.count = 0)
    /\ main.tex = t
LoaderDeletes(t) ==
    /\ loader.at = "destroy" \/ (loader.at = "releaseTest" /\ loader.count = 0)
    /\ loader.tex = t

One(P) == IF P THEN 1 ELSE 0
Users(t) == One(t \in pool) + One(t \in held) + One(Inserting(t)) + One(Releases(t))
               + One(Queued(t) \/ Carried(t)) + One(Called(t))

\* The count of t was never wrong.
Exact(t) == t \notin lost /\ t \notin stale

\* What was not made is nowhere.
Known(t) ==
    t \notin created => ~Queued(t) /\ ~Called(t) /\ ~MainHas(t) /\ ~LoaderHas(t)

Places(t) ==
    /\ Queued(t) => ~Carried(t) /\ ~Called(t)
    /\ Unscheduled(t) => ~Called(t)
    /\ Inserting(t) => t \notin pool
    /\ Keeping(t) => t \notin held

Counted(t) ==
    t \in created /\ Exact(t) =>
        /\ ref[t] = Users(t)
        /\ Users(t) = 0 <=> t \in deleted \/ MainDeletes(t) \/ LoaderDeletes(t)
        /\ ~(t \in deleted /\ MainDeletes(t))
        /\ ~(t \in deleted /\ LoaderDeletes(t))
        /\ ~(MainDeletes(t) /\ LoaderDeletes(t))
        /\ Keeping(t) => main.count # 0

Account(t) == Known(t) /\ Places(t) /\ Counted(t)

Accounts == \A t \in Textures : Account(t)

Distinct ==
    /\ \A i, j \in 1 .. Len(queue) : queue[i] = queue[j] => i = j
    /\ \A i, j \in 1 .. Len(pending) : pending[i] = pending[j] => i = j

Running ==
    /\ main.at \notin Loops => main.tex \in Textures
    /\ loader.at \notin {"wait", "take"} => loader.tex \in Textures
    /\ main.at = "drain" => pending # <<>>
    /\ Len(queue) = avail + (IF loader.at = "take" THEN 1 ELSE 0)

\* The cache has a texture under its name, or under the one it had.
CachedAt(f, t) ==
    cache[f] = t => t \in created /\ file[t] \in {f, NoFile} /\ (t \in deleted => file[t] = NoFile)

Cached == \A f \in Keys, t \in Textures : CachedAt(f, t)

\* A live texture with a name of its own is found under it.
StandsIn(f) == \E g \in Files : Kind[g] = "fallback" /\ Alternative[g] = f

FoundAt(t) ==
    t \in created /\ t \notin deleted /\ file[t] # NoFile /\ ~StandsIn(file[t]) =>
        IF Inserting(t) THEN cache[file[t]] = NoTexture ELSE cache[file[t]] = t

Found == \A t \in Textures : FoundAt(t)

Inv == TypeOK /\ Accounts /\ Distinct /\ Running /\ Cached /\ Found

-----------------------------------------------------------------------------
(* Types. *)

MainStates == [at : MainAt, tex : Textures \cup {NoTexture}, count : Int, back : Loops]
LoaderStates == [at : LoaderAt, tex : Textures \cup {NoTexture}, count : Int]

LEMMA Types ==
    ASSUME TypeOK
    PROVE  /\ main \in MainStates /\ loader \in LoaderStates
           /\ queue \in Seq(Textures) /\ Len(queue) \in Nat
           /\ pending \in Seq(Textures) /\ Len(pending) \in Nat
           /\ \A i \in 1 .. Len(queue) : queue[i] \in Textures
           /\ \A i \in 1 .. Len(pending) : pending[i] \in Textures
           /\ ref \in [Textures -> Int]
           /\ cache \in [Keys -> Textures \cup {NoTexture}]
           /\ file \in [Textures -> Keys]
           /\ avail \in Nat
           /\ created \subseteq Textures /\ deleted \subseteq created
           /\ pool \subseteq created /\ held \subseteq created
           /\ lost \subseteq created /\ stale \subseteq created
  BY DEF TypeOK, MainStates, LoaderStates

LEMMA UsersRange ==
    /\ \A t : Users(t) \in 0 .. 6
    /\ \A t : Users(t)' \in 0 .. 6
  BY DEF Users, One

\* The main thread at the head of a loop.
LEMMA LoopHeads ==
    /\ \A loop \in Loops : /\ MainIn(loop) \in MainStates
                           /\ MainIn(loop).at = loop /\ MainIn(loop).count = 0
    /\ Resume \in MainStates /\ Resume.at \in Loops
    /\ Resume.at = "drain" => pending # <<>>
<1>1. ASSUME NEW loop \in Loops
      PROVE  /\ MainIn(loop) \in MainStates
             /\ MainIn(loop).at = loop /\ MainIn(loop).count = 0
  BY DEF MainIn, MainStates, MainAt, Loops
<1>2. CASE \/ main.back = "drain" /\ pending # <<>>
           \/ main.back = "purge" /\ pool # {}
  <2>1. Resume = MainIn(main.back) /\ main.back \in Loops
    BY <1>2 DEF Resume, Loops
  <2>q. QED
    BY <1>1, <1>2, <2>1
<1>3. CASE ~(\/ main.back = "drain" /\ pending # <<>>
             \/ main.back = "purge" /\ pool # {})
  <2>1. Resume = MainIn("game") /\ "game" \in Loops
    BY <1>3 DEF Resume, Loops
  <2>q. QED
    BY <1>1, <2>1
<1>q. QED
  BY <1>1, <1>2, <1>3

LEMMA LoaderHead ==
    LoaderFree \in LoaderStates /\ LoaderFree.at = "wait" /\ LoaderFree.count = 0
  BY DEF LoaderFree, LoaderStates, LoaderAt

LEMMA InvInit == Init => Inv
<1> SUFFICES ASSUME Init PROVE Inv
  OBVIOUS
<1>1. /\ Len(queue) = 0 /\ Len(pending) = 0
      /\ queue \in Seq(Textures) /\ pending \in Seq(Textures)
  BY EmptySeq DEF Init
<1>2. main \in MainStates /\ loader \in LoaderStates /\ main.at = "game" /\ loader.at = "wait"
  BY LoopHeads, LoaderHead DEF Init, Loops
<1>3. TypeOK
  BY <1>1, <1>2 DEF Init, TypeOK, MainStates, LoaderStates, Keys
<1>4. Accounts
  BY <1>1, <1>2 DEF Init, Accounts, Account, Known, Places, Counted, Queued, Called, Carried,
     Unscheduled, Inserting, Keeping, MainHas, LoaderHas, Loops
<1>5. Distinct /\ Running
  BY <1>1, <1>2 DEF Init, Distinct, Running, Loops
<1>6. Cached /\ Found
  BY NamesAssumption DEF Init, Cached, CachedAt, Found, FoundAt
<1>q. QED
  BY <1>3, <1>4, <1>5, <1>6 DEF Inv

-----------------------------------------------------------------------------
(* What a step leaves alone.                                                *)

\* Nothing happens to t that its account tells apart.
Untouched(t) ==
    /\ t \in created' <=> t \in created
    /\ t \in pool' <=> t \in pool
    /\ t \in held' <=> t \in held
    /\ Queued(t)' <=> Queued(t)
    /\ Called(t)' <=> Called(t)
    /\ Carried(t)' <=> Carried(t)
    /\ Unscheduled(t)' => Unscheduled(t)
    /\ Inserting(t)' <=> Inserting(t)
    /\ Keeping(t)' <=> Keeping(t)
    /\ t \notin created => (MainHas(t)' => MainHas(t)) /\ (LoaderHas(t)' => LoaderHas(t))
    /\ Exact(t)' =>
          /\ Exact(t)
          /\ ref'[t] = ref[t]
          /\ t \in deleted' <=> t \in deleted
          /\ Releases(t)' <=> Releases(t)
          /\ MainDeletes(t)' <=> MainDeletes(t)
          /\ LoaderDeletes(t)' <=> LoaderDeletes(t)
          /\ Keeping(t) => main'.count = main.count

LEMMA UntouchedStays ==
    ASSUME NEW t \in Textures, Account(t), Untouched(t)
    PROVE  Account(t)'
<1>1. Known(t)'
  BY DEF Account, Known, Untouched
<1>2. Places(t)'
  BY DEF Account, Places, Untouched
<1>3. Exact(t)' => Users(t)' = Users(t)
  BY DEF Untouched, Users, One
<1>4. Counted(t)'
  BY <1>3 DEF Account, Counted, Untouched
<1>q. QED
  BY <1>1, <1>2, <1>4 DEF Account

\* A step of the main thread on u leaves the other textures alone, ...
LEMMA MainLeaves ==
    ASSUME NEW u, NEW t \in Textures, t # u,
           main.at \in Loops \/ main.tex = u, main'.at \in Loops \/ main'.tex = u,
           loader' = loader,
           Queued(t)' <=> Queued(t), Called(t)' <=> Called(t),
           t \in created' <=> t \in created, t \in deleted' <=> t \in deleted,
           t \in pool' <=> t \in pool, t \in held' <=> t \in held,
           ref'[t] = ref[t], Exact(t)' => Exact(t)
    PROVE  Untouched(t)
<1>1. /\ ~Inserting(t) /\ ~Releases(t) /\ ~Keeping(t) /\ ~MainDeletes(t) /\ ~MainHas(t)
      /\ ~Inserting(t)' /\ ~Releases(t)' /\ ~Keeping(t)' /\ ~MainDeletes(t)' /\ ~MainHas(t)'
  BY DEF Inserting, Releases, Keeping, MainDeletes, MainHas, Loops
<1>2. /\ Carried(t)' <=> Carried(t)
      /\ Unscheduled(t)' <=> Unscheduled(t)
      /\ LoaderDeletes(t)' <=> LoaderDeletes(t)
      /\ LoaderHas(t)' <=> LoaderHas(t)
  BY DEF Carried, Unscheduled, LoaderDeletes, LoaderHas
<1>q. QED
  BY <1>1, <1>2 DEF Untouched

\* ... and so does one of the loading thread.
LEMMA LoaderLeaves ==
    ASSUME NEW u, NEW t \in Textures, t # u,
           loader.at \in {"wait", "take"} \/ loader.tex = u,
           loader'.at \in {"wait", "take"} \/ loader'.tex = u,
           main' = main,
           Queued(t)' <=> Queued(t), Called(t)' <=> Called(t),
           t \in created' <=> t \in created, t \in deleted' <=> t \in deleted,
           t \in pool' <=> t \in pool, t \in held' <=> t \in held,
           ref'[t] = ref[t], Exact(t)' => Exact(t)
    PROVE  Untouched(t)
<1>1. /\ ~Carried(t) /\ ~Unscheduled(t) /\ ~LoaderDeletes(t) /\ ~LoaderHas(t)
      /\ ~Carried(t)' /\ ~Unscheduled(t)' /\ ~LoaderDeletes(t)' /\ ~LoaderHas(t)'
  BY DEF Carried, Unscheduled, LoaderDeletes, LoaderHas
<1>2. /\ Inserting(t)' <=> Inserting(t)
      /\ Releases(t)' <=> Releases(t)
      /\ Keeping(t)' <=> Keeping(t)
      /\ MainDeletes(t)' <=> MainDeletes(t)
      /\ MainHas(t)' <=> MainHas(t)
      /\ main'.count = main.count
  BY DEF Inserting, Releases, Keeping, MainDeletes, MainHas
<1>q. QED
  BY <1>1, <1>2 DEF Untouched

\* The cache is right as long as names, textures and getTexture stay.
LEMMA NamesStay ==
    ASSUME Cached, Found, UNCHANGED <<cache, file, created, deleted>>,
           \A t \in Textures : Inserting(t)' <=> Inserting(t)
    PROVE  Cached' /\ Found'
<1>1. Cached'
  BY DEF Cached, CachedAt
<1>2. ASSUME NEW t \in Textures
      PROVE  FoundAt(t)'
  <2>1. FoundAt(t) /\ (Inserting(t)' <=> Inserting(t))
    BY DEF Found
  <2>q. QED
    BY <2>1 DEF FoundAt, StandsIn
<1>q. QED
  BY <1>1, <1>2 DEF Found

\* The texture a thread works on was made.
LEMMA MainWorks ==
    ASSUME Inv, main.at \notin Loops
    PROVE  main.tex \in Textures /\ main.tex \in created /\ main.count \in Int
  BY Types DEF Inv, Running, Accounts, Account, Known, MainHas, MainStates

LEMMA LoaderWorks ==
    ASSUME Inv, loader.at \notin {"wait", "take"}
    PROVE  loader.tex \in Textures /\ loader.tex \in created /\ loader.count \in Int
  BY Types DEF Inv, Running, Accounts, Account, Known, LoaderHas, LoaderStates

-----------------------------------------------------------------------------
(* getTexture. *)

LEMMA GetCachedKeeps ==
    ASSUME Inv, NEW f \in Files, GetCached(f)
    PROVE  Inv'
<1>1. /\ cache[f] \in Textures /\ cache[f] \in created
      /\ main.at = "game" /\ main' = [main EXCEPT !.at = "got", !.tex = cache[f]]
      /\ UNCHANGED <<cache, file, ref, created, deleted, loading, queue, avail, pending,
                     pool, held, loader, lost, stale>>
  BY DEF GetCached, Game, objects, work, history, Inv, TypeOK, Cached, CachedAt, Keys
<1>2. main' \in MainStates /\ main'.at = "got" /\ main'.tex = cache[f]
  BY <1>1, Types DEF Inv, MainStates, MainAt
<1>3. TypeOK'
  BY <1>1, <1>2 DEF Inv, TypeOK, MainStates
<1>4. ASSUME NEW t \in Textures
      PROVE  Account(t)'
  <2>1. Account(t)
    BY DEF Inv, Accounts
  <2>2. Untouched(t)
    BY <1>1, <1>2 DEF Untouched, Queued, Called, Carried, Unscheduled, Inserting, Releases,
       Keeping, MainDeletes, LoaderDeletes, MainHas, LoaderHas, Exact, Loops
  <2>q. QED
    BY <2>1, <2>2, UntouchedStays
<1>5. Cached' /\ Found'
  BY <1>1, <1>2, NamesStay DEF Inv, Inserting
<1>6. Distinct' /\ Running'
  BY <1>1, <1>2 DEF Inv, Distinct, Running, Loops
<1>q. QED
  BY <1>3, <1>4, <1>5, <1>6 DEF Inv, Accounts

LEMMA GetSyncKeeps ==
    ASSUME Inv, NEW f \in Files, NEW u \in Textures, GetSync(f, u)
    PROVE  Inv'
<1> USE NamesAssumption
<1>1. /\ main.at = "game" /\ u \notin created /\ cache[f] = NoTexture
      /\ created' = created \cup {u}
      /\ file' = [file EXCEPT ![u] = f]
      /\ ref' = [ref EXCEPT ![u] = 1]
      /\ cache' = [cache EXCEPT ![f] = u]
      /\ pool' = pool \cup {u}
      /\ main' = [main EXCEPT !.at = "got", !.tex = u]
      /\ UNCHANGED <<deleted, loading, queue, avail, pending, held, loader, lost, stale>>
  BY DEF GetSync, Game, work, history, NewTexture
<1>2. main' \in MainStates /\ main'.at = "got" /\ main'.tex = u
  BY <1>1, Types DEF Inv, MainStates, MainAt
<1>3. f \in Keys /\ f # NoFile
  BY DEF Keys
<1>4. /\ file' \in [Textures -> Keys] /\ file'[u] = f
      /\ \A t \in Textures : t # u => file'[t] = file[t]
      /\ ref' \in [Textures -> Int] /\ ref'[u] = 1
      /\ \A t \in Textures : t # u => ref'[t] = ref[t]
      /\ cache' \in [Keys -> Textures \cup {NoTexture}] /\ cache'[f] = u
      /\ \A g \in Keys : g # f => cache'[g] = cache[g]
  BY <1>1, <1>3, Types DEF Inv
<1>5. /\ u \notin pool /\ u \notin held /\ u \notin deleted /\ u \in created'
      /\ ~Queued(u) /\ ~Called(u) /\ ~LoaderHas(u)
  BY <1>1, Types DEF Inv, Accounts, Account, Known
<1>6. TypeOK'
  BY <1>1, <1>2, <1>4, <1>5 DEF Inv, TypeOK, MainStates
<1>7. ASSUME NEW t \in Textures
      PROVE  Account(t)'
  <2>1. Account(t)
    BY DEF Inv, Accounts
  <2>2. CASE t # u
    <3>1. Untouched(t)
      BY <1>1, <1>2, <1>4, <2>2, MainLeaves DEF Queued, Called, Exact, Loops
    <3>q. QED
      BY <2>1, <3>1, UntouchedStays
  <2>3. CASE t = u
    <3>1. /\ ~Queued(t)' /\ ~Called(t)' /\ ~Carried(t)' /\ ~Unscheduled(t)'
          /\ ~LoaderDeletes(t)' /\ ~Inserting(t)' /\ ~Releases(t)' /\ ~Keeping(t)'
          /\ ~MainDeletes(t)'
      BY <1>1, <1>2, <1>5, <2>3 DEF Queued, Called, Carried, Unscheduled, LoaderDeletes,
         LoaderHas, Inserting, Releases, Keeping, MainDeletes
    <3>2. Users(t)' = 1
      BY <1>1, <1>5, <2>3, <3>1 DEF Users, One
    <3>q. QED
      BY <1>1, <1>4, <1>5, <2>3, <3>1, <3>2 DEF Account, Known, Places, Counted
  <2>q. QED
    BY <2>2, <2>3
<1>8. Distinct' /\ Running'
  BY <1>1, <1>2 DEF Inv, Distinct, Running, Loops
<1>9. ASSUME NEW g \in Keys, NEW t \in Textures
      PROVE  CachedAt(g, t)'
  <2>1. CachedAt(g, t)
    BY DEF Inv, Cached
  <2>2. CASE t = u
    <3>1. cache[g] # u
      BY <1>1, <2>1, <2>2 DEF CachedAt
    <3>q. QED
      BY <1>1, <1>4, <1>5, <2>2, <3>1 DEF CachedAt
  <2>3. CASE t # u
    BY <1>1, <1>4, <2>1, <2>3 DEF CachedAt
  <2>q. QED
    BY <2>2, <2>3
<1>10. ASSUME NEW t \in Textures
       PROVE  FoundAt(t)'
  <2>1. FoundAt(t) /\ ~Inserting(t) /\ ~Inserting(t)'
    BY <1>1, <1>2 DEF Inv, Found, Inserting
  <2>2. CASE t = u
    BY <1>1, <1>4, <2>1, <2>2 DEF FoundAt
  <2>3. CASE t # u
    <3>1. file[t] \in Keys /\ file'[t] = file[t]
      BY <1>4, <2>3, Types DEF Inv
    <3>2. CASE file[t] = f
      BY <1>1, <2>1, <2>3, <3>1, <3>2 DEF FoundAt, StandsIn
    <3>3. CASE file[t] # f
      <4>1. cache'[file'[t]] = cache[file[t]]
        BY <1>4, <3>1, <3>3
      <4>q. QED
        BY <1>1, <2>1, <2>3, <3>1, <4>1 DEF FoundAt, StandsIn
    <3>q. QED
      BY <3>2, <3>3
  <2>q. QED
    BY <2>2, <2>3
<1>q. QED
  BY <1>6, <1>7, <1>8, <1>9, <1>10 DEF Inv, Accounts, Cached, Found

LEMMA GetAsyncKeeps ==
    ASSUME Inv, NEW f \in Files, NEW u \in Textures, GetAsync(f, u)
    PROVE  Inv'
<1> USE NamesAssumption
<1> DEFINE name == AsyncName(f)
<1>1. /\ main.at = "game" /\ u \notin created /\ cache[f] = NoTexture
      /\ created' = created \cup {u}
      /\ file' = [file EXCEPT ![u] = name]
      /\ ref' = [ref EXCEPT ![u] = 2]
      /\ loading' = loading \cup {u}
      /\ queue' = Append(queue, u)
      /\ avail' = avail + 1
      /\ main' = [main EXCEPT !.at = "insert", !.tex = u]
      /\ UNCHANGED <<cache, deleted, pending, pool, held, loader, lost, stale>>
  BY DEF GetAsync, Game, history, NewTexture
<1>2. main' \in MainStates /\ main'.at = "insert" /\ main'.tex = u
  BY <1>1, Types DEF Inv, MainStates, MainAt
<1>3. /\ name \in Keys
      /\ ~StandsIn(name) => name = f
  BY AlternativeAssumption DEF AsyncName, Keys, StandsIn
<1> HIDE DEF name
<1>4. /\ file' \in [Textures -> Keys] /\ file'[u] = name
      /\ \A t \in Textures : t # u => file'[t] = file[t]
      /\ ref' \in [Textures -> Int] /\ ref'[u] = 2
      /\ \A t \in Textures : t # u => ref'[t] = ref[t]
  BY <1>1, <1>3, Types DEF Inv
<1>5. /\ u \notin pool /\ u \notin held /\ u \notin deleted /\ u \in created'
      /\ ~Queued(u) /\ ~Called(u) /\ ~LoaderHas(u)
  BY <1>1, Types DEF Inv, Accounts, Account, Known
<1>6. /\ queue' \in Seq(Textures) /\ Len(queue) \in Nat /\ Len(queue') = Len(queue) + 1
      /\ \A i \in 1 .. Len(queue) : queue'[i] = queue[i]
      /\ queue'[Len(queue) + 1] = u
  BY <1>1, Types, AppendToSeq DEF Inv
<1>7. avail' \in 0 .. Len(queue') /\ Len(queue') = avail' + (IF loader'.at = "take" THEN 1 ELSE 0)
  BY <1>1, <1>6, Types DEF Inv, Running
<1>8. TypeOK'
  <2>1. TypeOK
    BY DEF Inv
  <2>2. /\ created' \in SUBSET Textures
        /\ deleted' \in SUBSET created' /\ loading' \in SUBSET created'
        /\ pool' \in SUBSET created' /\ held' \in SUBSET created'
        /\ lost' \in SUBSET created' /\ stale' \in SUBSET created'
    BY <1>1, <2>1 DEF TypeOK
  <2>3. cache' \in [Keys -> Textures \cup {NoTexture}] /\ pending' \in Seq(Textures)
    BY <1>1, <2>1 DEF TypeOK
  <2>4. loader' \in [at : LoaderAt, tex : Textures \cup {NoTexture}, count : Int]
    BY <1>1, <2>1 DEF TypeOK
  <2>5. main' \in [at : MainAt, tex : Textures \cup {NoTexture}, count : Int, back : Loops]
    BY <1>2 DEF MainStates
  <2>q. QED
    BY <1>4, <1>6, <1>7, <2>2, <2>3, <2>4, <2>5 DEF TypeOK
<1>9. ASSUME NEW t \in Textures
      PROVE  Queued(t)' <=> Queued(t) \/ t = u
  <2>1. 1 .. Len(queue') = 1 .. Len(queue) \cup {Len(queue) + 1}
    BY <1>6
  <2>q. QED
    BY <1>6, <2>1 DEF Queued
<1>10. ASSUME NEW t \in Textures
       PROVE  Account(t)'
  <2>1. Account(t)
    BY DEF Inv, Accounts
  <2>2. CASE t # u
    <3>1. Untouched(t)
      BY <1>1, <1>2, <1>4, <1>9, <2>2, MainLeaves DEF Called, Exact, Loops
    <3>q. QED
      BY <2>1, <3>1, UntouchedStays
  <2>3. CASE t = u
    <3>1. /\ Queued(t)' /\ ~Called(t)' /\ ~Carried(t)' /\ ~Unscheduled(t)'
          /\ ~LoaderDeletes(t)' /\ Inserting(t)' /\ ~Releases(t)' /\ ~Keeping(t)'
          /\ ~MainDeletes(t)'
      BY <1>1, <1>2, <1>5, <1>9, <2>3 DEF Called, Carried, Unscheduled, LoaderDeletes,
         LoaderHas, Inserting, Releases, Keeping, MainDeletes
    <3>2. Users(t)' = 2
      BY <1>1, <1>5, <2>3, <3>1 DEF Users, One
    <3>q. QED
      BY <1>1, <1>4, <1>5, <2>3, <3>1, <3>2 DEF Account, Known, Places, Counted
  <2>q. QED
    BY <2>2, <2>3
<1>11. Distinct'
  <2>1. \A i, j \in 1 .. Len(queue') : queue'[i] = queue'[j] => i = j
    BY <1>5, <1>6 DEF Inv, Distinct, Queued
  <2>q. QED
    BY <1>1, <2>1 DEF Inv, Distinct
<1>12. Running'
  BY <1>1, <1>2, <1>7 DEF Inv, Running, Loops
<1>13. ASSUME NEW g \in Keys, NEW t \in Textures
       PROVE  CachedAt(g, t)'
  <2>1. CachedAt(g, t)
    BY DEF Inv, Cached
  <2>2. CASE t = u
    BY <1>1, <2>1, <2>2 DEF CachedAt
  <2>3. CASE t # u
    BY <1>1, <1>4, <2>1, <2>3 DEF CachedAt
  <2>q. QED
    BY <2>2, <2>3
<1>14. ASSUME NEW t \in Textures
       PROVE  FoundAt(t)'
  <2>1. FoundAt(t) /\ ~Inserting(t) /\ (Inserting(t)' <=> t = u)
    BY <1>1, <1>2 DEF Inv, Found, Inserting
  <2>2. CASE t = u
    BY <1>1, <1>3, <1>4, <2>1, <2>2 DEF FoundAt, StandsIn
  <2>3. CASE t # u
    BY <1>1, <1>4, <2>1, <2>3 DEF FoundAt, StandsIn
  <2>q. QED
    BY <2>2, <2>3
<1>q. QED
  BY <1>8, <1>10, <1>11, <1>12, <1>13, <1>14 DEF Inv, Accounts, Cached, Found

LEMMA InsertKeeps ==
    ASSUME Inv, Insert, ~Dangling
    PROVE  Inv'
<1> USE NamesAssumption
<1>1. PICK u \in Textures : u = main.tex /\ u \in created /\ u \notin deleted
  <2>1. main.tex \in Textures /\ main.tex \in created
    BY MainWorks DEF Insert, Loops
  <2>2. main.tex \in Used
    BY <2>1 DEF Used, Insert
  <2>q. QED
    BY <2>1, <2>2 DEF Dangling
<1>2. PICK f \in Keys : f = file[u]
  BY Types DEF Inv
<1>3. /\ main.at = "insert" /\ main' = [main EXCEPT !.at = "got"]
      /\ cache' = IF cache[f] = NoTexture THEN [cache EXCEPT ![f] = u] ELSE cache
      /\ pool' = pool \cup {u}
      /\ UNCHANGED <<file, ref, created, deleted, loading, queue, avail, pending, held,
                     loader, lost, stale>>
  BY <1>1, <1>2 DEF Insert, objects, work, history
<1>4. main' \in MainStates /\ main'.at = "got" /\ main'.tex = u
  BY <1>1, <1>3, Types DEF MainStates, MainAt, Inv
<1>5. cache' \in [Keys -> Textures \cup {NoTexture}]
  BY <1>3, Types DEF Inv
<1>6. \A g \in Keys : \/ cache'[g] = cache[g]
                      \/ g = f /\ cache[g] = NoTexture /\ cache'[g] = u
  BY <1>3, Types DEF Inv
<1>7. TypeOK'
  BY <1>1, <1>3, <1>4, <1>5 DEF Inv, TypeOK, MainStates
<1>8. ASSUME NEW t \in Textures
      PROVE  Account(t)'
  <2>1. Account(t)
    BY DEF Inv, Accounts
  <2>2. CASE t # u
    <3>1. Untouched(t)
      BY <1>1, <1>3, <1>4, <2>2, MainLeaves DEF Queued, Called, Exact
    <3>q. QED
      BY <2>1, <3>1, UntouchedStays
  <2>3. CASE t = u
    <3>1. /\ Queued(t)' <=> Queued(t)
          /\ Called(t)' <=> Called(t)
          /\ Carried(t)' <=> Carried(t)
          /\ Unscheduled(t)' <=> Unscheduled(t)
          /\ LoaderDeletes(t)' <=> LoaderDeletes(t)
          /\ Exact(t)' <=> Exact(t)
          /\ Inserting(t) /\ ~Inserting(t)' /\ ~Releases(t) /\ ~Releases(t)'
          /\ ~Keeping(t)' /\ ~MainDeletes(t) /\ ~MainDeletes(t)'
      BY <1>1, <1>3, <1>4, <2>3 DEF Queued, Called, Carried, Unscheduled, LoaderDeletes,
         Exact, Inserting, Releases, Keeping, MainDeletes
    <3>2. t \notin pool /\ t \in pool'
      BY <1>3, <2>1, <2>3, <3>1 DEF Account, Places
    <3>3. Users(t)' = Users(t)
      BY <1>3, <3>1, <3>2 DEF Users, One
    <3>q. QED
      BY <1>1, <1>3, <2>1, <2>3, <3>1, <3>3 DEF Account, Known, Places, Counted
  <2>q. QED
    BY <2>2, <2>3
<1>9. Distinct' /\ Running'
  BY <1>3, <1>4 DEF Inv, Distinct, Running, Loops
<1>10. ASSUME NEW g \in Keys, NEW t \in Textures
       PROVE  CachedAt(g, t)'
  <2>1. CachedAt(g, t)
    BY DEF Inv, Cached
  <2>2. CASE cache'[g] = cache[g]
    BY <1>3, <2>1, <2>2 DEF CachedAt
  <2>3. CASE g = f /\ cache'[g] = u
    BY <1>1, <1>2, <1>3, <2>3 DEF CachedAt
  <2>q. QED
    BY <1>6, <2>2, <2>3
<1>11. ASSUME NEW t \in Textures
       PROVE  FoundAt(t)'
  <2>1. FoundAt(t) /\ ~Inserting(t)' /\ file[t] \in Keys /\ (Inserting(t) <=> t = u)
    BY <1>1, <1>3, <1>4, Types DEF Inv, Found, Inserting
  <2>2. CASE t = u
    <3>1. cache[f] = NoTexture => cache'[f] = u
      BY <1>3, Types DEF Inv
    <3>q. QED
      BY <1>2, <1>3, <2>1, <2>2, <3>1 DEF FoundAt, StandsIn
  <2>3. CASE t # u
    <3>1. cache[file[t]] = t => cache'[file[t]] = t
      BY <1>6, <2>1
    <3>q. QED
      BY <1>3, <2>1, <2>3, <3>1 DEF FoundAt, StandsIn
  <2>q. QED
    BY <2>2, <2>3
<1>q. QED
  BY <1>7, <1>8, <1>9, <1>10, <1>11 DEF Inv, Accounts, Cached, Found

-----------------------------------------------------------------------------
(* The main thread: the game and its counts. *)

LEMMA KeepKeeps ==
    ASSUME Inv, Keep
    PROVE  Inv'
<1>1. PICK u \in Textures : u = main.tex /\ u \in created
  BY MainWorks DEF Keep, Loops
<1>2. /\ main.at = "got" /\ u \notin held
      /\ stale' = IF ref[u] = 0 THEN stale \cup {u} ELSE stale
      /\ main' = [main EXCEPT !.at = "retainStore", !.count = ref[u]]
      /\ UNCHANGED <<cache, file, ref, created, deleted, loading, queue, avail, pending,
                     pool, held, loader, lost>>
  BY <1>1 DEF Keep, objects, work
<1>3. /\ main' \in MainStates /\ main'.at = "retainStore" /\ main'.tex = u
      /\ main'.count = ref[u]
  BY <1>1, <1>2, Types DEF Inv, MainStates, MainAt
<1>4. TypeOK'
  BY <1>1, <1>2, <1>3 DEF Inv, TypeOK, MainStates
<1>5. ASSUME NEW t \in Textures
      PROVE  Account(t)'
  <2>1. Account(t)
    BY DEF Inv, Accounts
  <2>2. CASE t # u
    <3>1. Untouched(t)
      BY <1>1, <1>2, <1>3, <2>2, MainLeaves DEF Queued, Called, Exact
    <3>q. QED
      BY <2>1, <3>1, UntouchedStays
  <2>3. CASE t = u
    <3>1. /\ Queued(t)' <=> Queued(t)
          /\ Called(t)' <=> Called(t)
          /\ Carried(t)' <=> Carried(t)
          /\ Unscheduled(t)' <=> Unscheduled(t)
          /\ LoaderDeletes(t)' <=> LoaderDeletes(t)
          /\ ~Inserting(t) /\ ~Inserting(t)' /\ ~Releases(t) /\ ~Releases(t)'
          /\ Keeping(t)' /\ ~MainDeletes(t) /\ ~MainDeletes(t)'
      BY <1>1, <1>2, <1>3, <2>3 DEF Queued, Called, Carried, Unscheduled, LoaderDeletes,
         Inserting, Releases, Keeping, MainDeletes
    <3>2. Exact(t)' => Exact(t) /\ main'.count # 0
      BY <1>2, <1>3, <2>3 DEF Exact
    <3>3. Users(t)' = Users(t)
      BY <1>2, <3>1 DEF Users, One
    <3>q. QED
      BY <1>1, <1>2, <2>1, <2>3, <3>1, <3>2, <3>3 DEF Account, Known, Places, Counted
  <2>q. QED
    BY <2>2, <2>3
<1>6. Cached' /\ Found'
  BY <1>2, <1>3, NamesStay DEF Inv, Inserting
<1>7. Distinct' /\ Running'
  BY <1>2, <1>3 DEF Inv, Distinct, Running, Loops
<1>q. QED
  BY <1>4, <1>5, <1>6, <1>7 DEF Inv, Accounts

\* What the game retains has a reference, or its count was 0 when the game looked.
LEMMA RetainStoreKeeps ==
    ASSUME Inv, RetainStore
    PROVE  Inv'
<1>1. PICK u \in Textures : u = main.tex /\ u \in created
  BY MainWorks DEF RetainStore, Loops
<1>2. PICK n \in Int : n = main.count
  BY Types DEF Inv, MainStates
<1>3. /\ main.at = "retainStore"
      /\ ref' = [ref EXCEPT ![u] = n + 1]
      /\ lost' = IF ref[u] = n THEN lost ELSE lost \cup {u}
      /\ held' = held \cup {u}
      /\ main' = MainIn("game")
      /\ UNCHANGED <<cache, file, created, deleted, loading, queue, avail, pending, pool,
                     loader, stale>>
  BY <1>1, <1>2 DEF RetainStore, Store, objects, work
<1>4. main' \in MainStates /\ main'.at = "game"
  BY <1>3, LoopHeads DEF Loops
<1>5. /\ ref' \in [Textures -> Int] /\ ref'[u] = n + 1
      /\ \A t \in Textures : t # u => ref'[t] = ref[t]
  BY <1>2, <1>3, Types DEF Inv
<1>6. TypeOK'
  BY <1>1, <1>3, <1>4, <1>5 DEF Inv, TypeOK, MainStates
<1>7. ASSUME NEW t \in Textures
      PROVE  Account(t)'
  <2>1. Account(t)
    BY DEF Inv, Accounts
  <2>2. CASE t # u
    <3>1. Untouched(t)
      BY <1>1, <1>3, <1>4, <1>5, <2>2, MainLeaves DEF Queued, Called, Exact, Loops
    <3>q. QED
      BY <2>1, <3>1, UntouchedStays
  <2>3. CASE t = u
    <3>1. /\ Queued(t)' <=> Queued(t)
          /\ Called(t)' <=> Called(t)
          /\ Carried(t)' <=> Carried(t)
          /\ Unscheduled(t)' <=> Unscheduled(t)
          /\ LoaderDeletes(t)' <=> LoaderDeletes(t)
          /\ ~Inserting(t) /\ ~Inserting(t)' /\ ~Releases(t) /\ ~Releases(t)'
          /\ Keeping(t) /\ ~Keeping(t)' /\ ~MainDeletes(t) /\ ~MainDeletes(t)'
      BY <1>1, <1>3, <1>4, <2>3 DEF Queued, Called, Carried, Unscheduled, LoaderDeletes,
         Inserting, Releases, Keeping, MainDeletes
    <3>2. t \notin held /\ t \in held'
      BY <1>3, <2>1, <2>3, <3>1 DEF Account, Places
    <3>3. Users(t)' = Users(t) + 1 /\ Users(t) \in 0 .. 6
      BY <1>3, <3>1, <3>2, UsersRange DEF Users, One
    <3>4. Exact(t)' => Exact(t) /\ ref[t] = n
      BY <1>3, <2>3 DEF Exact
    <3>5. Exact(t)' => /\ ref[t] = Users(t) /\ n # 0
                       /\ t \notin deleted /\ ~LoaderDeletes(t)
      BY <1>1, <1>2, <2>1, <2>3, <3>1, <3>4 DEF Account, Counted
    <3>6. Exact(t)' => ref'[t] = Users(t)' /\ Users(t)' # 0
      BY <1>5, <2>3, <3>3, <3>4, <3>5
    <3>q. QED
      BY <1>1, <1>3, <2>1, <2>3, <3>1, <3>5, <3>6 DEF Account, Known, Places, Counted
  <2>q. QED
    BY <2>2, <2>3
<1>8. Cached' /\ Found'
  BY <1>3, <1>4, NamesStay DEF Inv, Inserting
<1>9. Distinct' /\ Running'
  BY <1>3, <1>4 DEF Inv, Distinct, Running, Loops
<1>q. QED
  BY <1>6, <1>7, <1>8, <1>9 DEF Inv, Accounts

\* Ignore, BeginDrain and BeginPurge only move the main thread to the head of a loop.
LEMMA HeadKeeps ==
    ASSUME Inv, NEW loop \in Loops, main' = MainIn(loop),
           main.at \in Loops \cup {"got"}, loop = "drain" => pending # <<>>,
           UNCHANGED <<cache, objects, ref, work, pool, held, loader, history>>
    PROVE  Inv'
<1>1. UNCHANGED <<cache, file, ref, created, deleted, loading, queue, avail, pending, pool,
                  held, loader, lost, stale>>
  BY DEF objects, work, history
<1>2. main' \in MainStates /\ main'.at = loop /\ main'.at \in Loops
  BY LoopHeads
<1>3. TypeOK'
  BY <1>1, <1>2 DEF Inv, TypeOK, MainStates
<1>4. ASSUME NEW t \in Textures
      PROVE  Account(t)'
  <2>1. Account(t)
    BY DEF Inv, Accounts
  <2>2. Untouched(t)
    BY <1>1, <1>2 DEF Untouched, Queued, Called, Carried, Unscheduled, Inserting, Releases,
       Keeping, MainDeletes, LoaderDeletes, MainHas, LoaderHas, Exact, Loops
  <2>q. QED
    BY <2>1, <2>2, UntouchedStays
<1>5. Cached' /\ Found'
  BY <1>1, <1>2, NamesStay DEF Inv, Inserting, Loops
<1>6. Distinct' /\ Running'
  BY <1>1, <1>2 DEF Inv, Distinct, Running
<1>q. QED
  BY <1>3, <1>4, <1>5, <1>6 DEF Inv, Accounts

LEMMA IgnoreKeeps ==
    ASSUME Inv, Ignore
    PROVE  Inv'
<1>1. /\ main.at = "got" /\ main' = MainIn("game")
      /\ UNCHANGED <<cache, objects, ref, work, pool, held, loader, history>>
  BY DEF Ignore
<1>q. QED
  BY <1>1, HeadKeeps DEF Loops

LEMMA BeginDrainKeeps ==
    ASSUME Inv, BeginDrain
    PROVE  Inv'
<1>1. /\ main.at = "game" /\ main' = MainIn("drain") /\ pending # <<>>
      /\ UNCHANGED <<cache, objects, ref, work, pool, held, loader, history>>
  BY DEF BeginDrain, Game
<1>q. QED
  BY <1>1, HeadKeeps DEF Loops

LEMMA BeginPurgeKeeps ==
    ASSUME Inv, BeginPurge
    PROVE  Inv'
<1>1. /\ main.at = "game" /\ main' = MainIn("purge")
      /\ UNCHANGED <<cache, objects, ref, work, pool, held, loader, history>>
  BY DEF BeginPurge, Game
<1>q. QED
  BY <1>1, HeadKeeps DEF Loops

LEMMA ReleasingAt ==
    ASSUME Inv, NEW u \in Textures
    PROVE  /\ Releasing(u) \in MainStates
           /\ Releasing(u).at = "releaseStore" /\ Releasing(u).tex = u
  BY Types DEF Inv, Releasing, MainStates, MainAt

\* A reference of the game or of the pool becomes one the main thread is releasing.
LEMMA GiveUp ==
    ASSUME Inv, NEW u \in Textures, main.at \in Loops, main' = Releasing(u),
           \/ u \in held /\ held' = held \ {u} /\ pool' = pool
           \/ u \in pool /\ pool' = pool \ {u} /\ held' = held,
           UNCHANGED <<cache, objects, ref, work, loader, history>>
    PROVE  Inv'
<1>1. UNCHANGED <<cache, file, ref, created, deleted, loading, queue, avail, pending, loader,
                  lost, stale>>
  BY DEF objects, work, history
<1>2. main' \in MainStates /\ main'.at = "releaseStore" /\ main'.tex = u
  BY ReleasingAt
<1>3. u \in created
  BY Types DEF Inv
<1>4. TypeOK'
  BY <1>1, <1>2 DEF Inv, TypeOK, MainStates
<1>5. ASSUME NEW t \in Textures
      PROVE  Account(t)'
  <2>1. Account(t)
    BY DEF Inv, Accounts
  <2>2. CASE t # u
    <3>1. (t \in pool' <=> t \in pool) /\ (t \in held' <=> t \in held)
      BY <2>2
    <3>2. Untouched(t)
      BY <1>1, <1>2, <2>2, <3>1, MainLeaves DEF Queued, Called, Exact
    <3>q. QED
      BY <2>1, <3>2, UntouchedStays
  <2>3. CASE t = u
    <3>1. /\ Queued(t)' <=> Queued(t)
          /\ Called(t)' <=> Called(t)
          /\ Carried(t)' <=> Carried(t)
          /\ Unscheduled(t)' <=> Unscheduled(t)
          /\ LoaderDeletes(t)' <=> LoaderDeletes(t)
          /\ Exact(t)' <=> Exact(t)
          /\ ~Inserting(t) /\ ~Inserting(t)' /\ ~Releases(t) /\ Releases(t)'
          /\ ~Keeping(t)' /\ ~MainDeletes(t) /\ ~MainDeletes(t)'
      BY <1>1, <1>2, <2>3 DEF Queued, Called, Carried, Unscheduled, LoaderDeletes,
         Exact, Inserting, Releases, Keeping, MainDeletes, Loops
    <3>2. One(t \in pool)' + One(t \in held)' + 1 = One(t \in pool) + One(t \in held)
      BY <2>3 DEF One
    <3>3. Users(t)' = Users(t)
      BY <3>1, <3>2 DEF Users, One
    <3>q. QED
      BY <1>1, <1>3, <2>1, <2>3, <3>1, <3>3 DEF Account, Known, Places, Counted
  <2>q. QED
    BY <2>2, <2>3
<1>6. Cached' /\ Found'
  BY <1>1, <1>2, NamesStay DEF Inv, Inserting, Loops
<1>7. Distinct' /\ Running'
  BY <1>1, <1>2 DEF Inv, Distinct, Running, Loops
<1>q. QED
  BY <1>4, <1>5, <1>6, <1>7 DEF Inv, Accounts

LEMMA GameReleaseKeeps ==
    ASSUME Inv, NEW u \in Textures, GameRelease(u)
    PROVE  Inv'
<1>1. /\ main.at = "game" /\ u \in held /\ held' = held \ {u} /\ pool' = pool
      /\ main' = Releasing(u)
      /\ UNCHANGED <<cache, objects, ref, work, loader, history>>
  BY DEF GameRelease, Game
<1>q. QED
  BY <1>1, GiveUp DEF Loops

LEMMA PoolReleaseKeeps ==
    ASSUME Inv, NEW u \in Textures, PoolRelease(u)
    PROVE  Inv'
<1>1. /\ main.at = "purge" /\ u \in pool /\ pool' = pool \ {u} /\ held' = held
      /\ main' = Releasing(u)
      /\ UNCHANGED <<cache, objects, ref, work, loader, history>>
  BY DEF PoolRelease
<1>q. QED
  BY <1>1, GiveUp DEF Loops

\* When nobody changed the count meanwhile, the last reference is gone exactly when
\* the count is 0.
LEMMA ReleaseStoreKeeps ==
    ASSUME Inv, ReleaseStore
    PROVE  Inv'
<1>1. PICK u \in Textures : u = main.tex /\ u \in created
  BY MainWorks DEF ReleaseStore, Loops
<1>2. PICK n \in Int : n = main.count
  BY Types DEF Inv, MainStates
<1>3. /\ main.at = "releaseStore"
      /\ ref' = [ref EXCEPT ![u] = n - 1]
      /\ lost' = IF ref[u] = n THEN lost ELSE lost \cup {u}
      /\ main' = [main EXCEPT !.at = "releaseTest", !.count = n - 1]
      /\ UNCHANGED <<cache, file, created, deleted, loading, queue, avail, pending, pool,
                     held, loader, stale>>
  <2>1. main' = [main EXCEPT !.at = "releaseTest", !.count = n - 1]
    BY <1>2 DEF ReleaseStore
  <2>q. QED
    BY <1>1, <1>2, <2>1 DEF ReleaseStore, Store, objects, work
<1>4. /\ main' \in MainStates /\ main'.at = "releaseTest" /\ main'.tex = u
      /\ main'.count = n - 1
  <2>1. PICK k \in Int : k = n - 1
    BY <1>2
  <2>2. main' = [main EXCEPT !.at = "releaseTest", !.count = k]
    BY <1>3, <2>1
  <2>3. /\ main' \in MainStates /\ main'.at = "releaseTest" /\ main'.tex = u
        /\ main'.count = k
    BY <1>1, <2>2, Types DEF Inv, MainStates, MainAt
  <2>q. QED
    BY <2>1, <2>3
<1>5. /\ ref' \in [Textures -> Int] /\ ref'[u] = n - 1
      /\ \A t \in Textures : t # u => ref'[t] = ref[t]
  BY <1>2, <1>3, Types DEF Inv
<1>6. TypeOK'
  BY <1>1, <1>3, <1>4, <1>5 DEF Inv, TypeOK, MainStates
<1>7. ASSUME NEW t \in Textures
      PROVE  Account(t)'
  <2>1. Account(t)
    BY DEF Inv, Accounts
  <2>2. CASE t # u
    <3>1. Untouched(t)
      BY <1>1, <1>3, <1>4, <1>5, <2>2, MainLeaves DEF Queued, Called, Exact
    <3>q. QED
      BY <2>1, <3>1, UntouchedStays
  <2>3. CASE t = u
    <3>1. /\ Queued(t)' <=> Queued(t)
          /\ Called(t)' <=> Called(t)
          /\ Carried(t)' <=> Carried(t)
          /\ Unscheduled(t)' <=> Unscheduled(t)
          /\ LoaderDeletes(t)' <=> LoaderDeletes(t)
          /\ ~Inserting(t) /\ ~Inserting(t)' /\ Releases(t) /\ ~Releases(t)'
          /\ ~Keeping(t)' /\ ~MainDeletes(t) /\ (MainDeletes(t)' <=> n = 1)
      BY <1>1, <1>2, <1>3, <1>4, <2>3 DEF Queued, Called, Carried, Unscheduled,
         LoaderDeletes, Inserting, Releases, Keeping, MainDeletes
    <3>2. Users(t)' = Users(t) - 1 /\ Users(t) \in 1 .. 6
      BY <1>3, <3>1 DEF Users, One
    <3>3. Exact(t)' => Exact(t) /\ ref[t] = n
      BY <1>3, <2>3 DEF Exact
    <3>4. Exact(t)' => ref[t] = Users(t) /\ t \notin deleted /\ ~LoaderDeletes(t)
      BY <1>1, <2>1, <2>3, <3>2, <3>3 DEF Account, Counted
    <3>5. Exact(t)' => ref'[t] = Users(t)' /\ (Users(t)' = 0 <=> n = 1)
      BY <1>2, <1>5, <2>3, <3>2, <3>3, <3>4
    <3>q. QED
      BY <1>1, <1>3, <2>1, <2>3, <3>1, <3>4, <3>5 DEF Account, Known, Places, Counted
  <2>q. QED
    BY <2>2, <2>3
<1>8. Cached' /\ Found'
  BY <1>3, <1>4, NamesStay DEF Inv, Inserting
<1>9. Distinct' /\ Running'
  BY <1>1, <1>3, <1>4 DEF Inv, Distinct, Running, Loops
<1>q. QED
  BY <1>6, <1>7, <1>8, <1>9 DEF Inv, Accounts

LEMMA ReleaseTestKeeps ==
    ASSUME Inv, ReleaseTest
    PROVE  Inv'
<1>1. PICK u \in Textures : u = main.tex /\ u \in created
  BY MainWorks DEF ReleaseTest, Loops
<1>2. PICK m : /\ lost' = IF (m = 0) = (main.count = 0) THEN lost ELSE lost \cup {u}
               /\ main' = IF m = 0 THEN [main EXCEPT !.at = "destroy", !.count = 0] ELSE Resume
  BY <1>1 DEF ReleaseTest, Test
<1>3. /\ main.at = "releaseTest"
      /\ UNCHANGED <<cache, file, ref, created, deleted, loading, queue, avail, pending, pool,
                     held, loader, stale>>
  BY DEF ReleaseTest, objects, work
<1>4. /\ main' \in MainStates
      /\ m = 0 => main'.at = "destroy" /\ main'.tex = u
      /\ m # 0 => main'.at \in Loops
      /\ main'.at = "drain" => pending # <<>>
  <2>1. CASE m = 0
    <3>1. PICK k \in Int : k = 0
      OBVIOUS
    <3>2. main' = [main EXCEPT !.at = "destroy", !.count = k]
      BY <1>2, <2>1, <3>1
    <3>3. main' \in MainStates /\ main'.at = "destroy" /\ main'.tex = u
      BY <1>1, <3>2, Types DEF Inv, MainStates, MainAt
    <3>q. QED
      BY <2>1, <3>3
  <2>2. CASE m # 0
    BY <1>2, <2>2, LoopHeads
  <2>q. QED
    BY <2>1, <2>2
<1>5. TypeOK'
  BY <1>1, <1>2, <1>3, <1>4 DEF Inv, TypeOK, MainStates
<1>6. ASSUME NEW t \in Textures
      PROVE  Account(t)'
  <2>1. Account(t)
    BY DEF Inv, Accounts
  <2>2. Untouched(t)
    <3>1. CASE t # u
      BY <1>1, <1>2, <1>3, <1>4, <3>1, MainLeaves DEF Queued, Called, Exact
    <3>2. CASE t = u
      <4>1. /\ ~Inserting(t) /\ ~Releases(t) /\ ~Keeping(t)
            /\ ~Inserting(t)' /\ ~Releases(t)' /\ ~Keeping(t)'
            /\ MainDeletes(t) <=> main.count = 0
            /\ MainDeletes(t)' <=> m = 0
        BY <1>1, <1>3, <1>4, <3>2 DEF Inserting, Releases, Keeping, MainDeletes, Loops
      <4>2. Exact(t)' => Exact(t) /\ (m = 0 <=> main.count = 0)
        BY <1>2, <1>3, <3>2 DEF Exact
      <4>q. QED
        BY <1>1, <1>3, <3>2, <4>1, <4>2 DEF Untouched, Queued, Called, Carried, Unscheduled,
           LoaderDeletes
    <3>q. QED
      BY <3>1, <3>2
  <2>q. QED
    BY <2>1, <2>2, UntouchedStays
<1>7. Cached' /\ Found'
  BY <1>3, <1>4, NamesStay DEF Inv, Inserting, Loops
<1>8. Distinct' /\ Running'
  BY <1>1, <1>3, <1>4 DEF Inv, Distinct, Running, Loops
<1>q. QED
  BY <1>5, <1>6, <1>7, <1>8 DEF Inv, Accounts

-----------------------------------------------------------------------------
(* Destructors. *)

\* The destructor of u takes its entry out of the cache, and leaves those of the living.
LEMMA DestructorKeeps ==
    ASSUME Inv, NEW u \in Textures, u \in created, u \notin deleted,
           main.at # "insert", main'.at # "insert",
           deleted' = deleted \cup {u}, cache' = Erased(u), UNCHANGED <<file, created>>
    PROVE  /\ cache' \in [Keys -> Textures \cup {NoTexture}]
           /\ Cached' /\ Found'
<1> USE NamesAssumption
<1>1. /\ cache' \in [Keys -> Textures \cup {NoTexture}]
      /\ \A g \in Keys :
            cache'[g] = IF g # NoFile /\ file[u] = g THEN NoTexture ELSE cache[g]
  <2>1. file[u] \in Keys /\ cache \in [Keys -> Textures \cup {NoTexture}]
    BY Types DEF Inv
  <2>q. QED
    BY <2>1 DEF Erased
<1>2. ASSUME NEW g \in Keys, NEW t \in Textures
      PROVE  CachedAt(g, t)'
  <2> SUFFICES ASSUME cache'[g] = t
               PROVE  /\ t \in created' /\ file'[t] \in {g, NoFile}
                      /\ t \in deleted' => file'[t] = NoFile
    BY DEF CachedAt
  <2>1. cache[g] = t /\ ~(g # NoFile /\ file[u] = g)
    BY <1>1
  <2>2. t \in created /\ file[t] \in {g, NoFile} /\ (t \in deleted => file[t] = NoFile)
    BY <2>1 DEF Inv, Cached, CachedAt
  <2>3. t = u => file[t] = NoFile
    BY <2>1, <2>2
  <2>q. QED
    BY <2>2, <2>3
<1>3. ASSUME NEW t \in Textures
      PROVE  FoundAt(t)'
  <2> SUFFICES ASSUME t \in created, t \notin deleted, t # u, file[t] # NoFile,
                      ~StandsIn(file[t])
               PROVE  ~Inserting(t)' /\ cache'[file[t]] = t
    BY DEF FoundAt, StandsIn
  <2>1. ~Inserting(t)' /\ ~Inserting(t) /\ ~Inserting(u)
    BY DEF Inserting
  <2>2. cache[file[t]] = t /\ file[t] \in Keys
    BY <2>1, Types DEF Inv, Found, FoundAt
  <2>3. file[u] # file[t]
    <3>1. ASSUME file[u] = file[t]
          PROVE  FALSE
      <4>1. FoundAt(u)
        BY DEF Inv, Found
      <4>2. cache[file[u]] = u
        BY <2>1, <3>1, <4>1 DEF FoundAt
      <4>q. QED
        BY <2>2, <3>1, <4>2
    <3>q. QED
      BY <3>1
  <2>4. cache'[file[t]] = cache[file[t]]
    BY <1>1, <2>2, <2>3
  <2>q. QED
    BY <2>1, <2>2, <2>4
<1>q. QED
  BY <1>1, <1>2, <1>3 DEF Cached, Found

LEMMA DestroyKeeps ==
    ASSUME Inv, Destroy, ~Dangling
    PROVE  Inv'
<1>1. PICK u \in Textures : u = main.tex /\ u \in created /\ u \notin deleted
  <2>1. main.tex \in Textures /\ main.tex \in created
    BY MainWorks DEF Destroy, Loops
  <2>2. main.tex \in Used
    BY <2>1 DEF Used, Destroy
  <2>q. QED
    BY <2>1, <2>2 DEF Dangling
<1>2. /\ main.at = "destroy"
      /\ deleted' = deleted \cup {u}
      /\ cache' = Erased(u)
      /\ main' = Resume
      /\ UNCHANGED <<file, ref, created, loading, queue, avail, pending, pool, held, loader,
                     lost, stale>>
  BY <1>1 DEF Destroy, work, history
<1>3. main' \in MainStates /\ main'.at \in Loops /\ (main'.at = "drain" => pending # <<>>)
  BY <1>2, LoopHeads
<1>4. cache' \in [Keys -> Textures \cup {NoTexture}] /\ Cached' /\ Found'
  BY <1>1, <1>2, <1>3, DestructorKeeps DEF Loops
<1>5. TypeOK'
  BY <1>1, <1>2, <1>3, <1>4 DEF Inv, TypeOK, MainStates
<1>6. ASSUME NEW t \in Textures
      PROVE  Account(t)'
  <2>1. Account(t)
    BY DEF Inv, Accounts
  <2>2. CASE t # u
    <3>1. Untouched(t)
      BY <1>1, <1>2, <1>3, <2>2, MainLeaves DEF Queued, Called, Exact
    <3>q. QED
      BY <2>1, <3>1, UntouchedStays
  <2>3. CASE t = u
    <3>1. /\ Queued(t)' <=> Queued(t)
          /\ Called(t)' <=> Called(t)
          /\ Carried(t)' <=> Carried(t)
          /\ Unscheduled(t)' <=> Unscheduled(t)
          /\ LoaderDeletes(t)' <=> LoaderDeletes(t)
          /\ Exact(t)' <=> Exact(t)
          /\ ~Inserting(t) /\ ~Inserting(t)' /\ ~Releases(t) /\ ~Releases(t)'
          /\ ~Keeping(t)' /\ MainDeletes(t) /\ ~MainDeletes(t)'
      BY <1>1, <1>2, <1>3, <2>3 DEF Queued, Called, Carried, Unscheduled, LoaderDeletes,
         Exact, Inserting, Releases, Keeping, MainDeletes, Loops
    <3>2. Users(t)' = Users(t)
      BY <1>2, <3>1 DEF Users, One
    <3>q. QED
      BY <1>1, <1>2, <2>1, <2>3, <3>1, <3>2 DEF Account, Known, Places, Counted
  <2>q. QED
    BY <2>2, <2>3
<1>7. Distinct' /\ Running'
  BY <1>2, <1>3 DEF Inv, Distinct, Running
<1>q. QED
  BY <1>4, <1>5, <1>6, <1>7 DEF Inv, Accounts

-----------------------------------------------------------------------------
(* The drain. *)

\* What is taken from the front of a line in which nothing is twice is in it no more.
LEMMA TailOfDistinct ==
    ASSUME NEW s \in Seq(Textures), s # <<>>,
           \A i, j \in 1 .. Len(s) : s[i] = s[j] => i = j
    PROVE  /\ Len(s) \in Nat \ {0} /\ Head(s) = s[1] /\ Head(s) \in Textures
           /\ Tail(s) \in Seq(Textures) /\ Len(Tail(s)) = Len(s) - 1
           /\ \A i, j \in 1 .. Len(Tail(s)) : Tail(s)[i] = Tail(s)[j] => i = j
           /\ \A t : (\E i \in 1 .. Len(Tail(s)) : Tail(s)[i] = t)
                      <=> (\E i \in 1 .. Len(s) : s[i] = t) /\ t # Head(s)
<1>1. Len(s) \in Nat \ {0} /\ Head(s) = s[1] /\ s[1] \in Textures
  BY EmptySeq
<1>2. /\ Tail(s) \in Seq(Textures) /\ Len(Tail(s)) = Len(s) - 1
      /\ \A i \in 1 .. (Len(s) - 1) : Tail(s)[i] = s[i + 1]
  BY <1>1, HeadTailProperties
<1>3. \A i, j \in 1 .. Len(Tail(s)) : Tail(s)[i] = Tail(s)[j] => i = j
  BY <1>1, <1>2
<1>4. ASSUME NEW i \in 1 .. (Len(s) - 1)
      PROVE  s[i + 1] # s[1]
  BY <1>1
<1>5. ASSUME NEW i \in 1 .. Len(s), s[i] # s[1]
      PROVE  i - 1 \in 1 .. (Len(s) - 1) /\ (i - 1) + 1 = i
  <2>1. i # 1
    BY <1>5
  <2>q. QED
    BY <1>1, <2>1
<1>6. ASSUME NEW t
      PROVE  (\E i \in 1 .. (Len(s) - 1) : s[i + 1] = t)
                      <=> (\E i \in 1 .. Len(s) : s[i] = t) /\ t # s[1]
  <2>1. ASSUME NEW i \in 1 .. (Len(s) - 1), s[i + 1] = t
        PROVE  (\E k \in 1 .. Len(s) : s[k] = t) /\ t # s[1]
    <3>1. i + 1 \in 1 .. Len(s)
      BY <1>1
    <3>q. QED
      BY <1>4, <2>1, <3>1
  <2>2. ASSUME NEW i \in 1 .. Len(s), s[i] = t, t # s[1]
        PROVE  \E k \in 1 .. (Len(s) - 1) : s[k + 1] = t
    BY <1>5, <2>2
  <2>q. QED
    BY <2>1, <2>2
<1>7. ASSUME NEW t
      PROVE  (\E i \in 1 .. Len(Tail(s)) : Tail(s)[i] = t)
                      <=> (\E i \in 1 .. Len(s) : s[i] = t) /\ t # Head(s)
  <2>1. 1 .. Len(Tail(s)) = 1 .. (Len(s) - 1)
    BY <1>2
  <2>2. (\E i \in 1 .. Len(Tail(s)) : Tail(s)[i] = t)
          <=> (\E i \in 1 .. (Len(s) - 1) : s[i + 1] = t)
    BY <1>2, <2>1
  <2>q. QED
    BY <1>1, <1>6, <2>2
<1>q. QED
  BY <1>1, <1>2, <1>3, <1>7

\* The call has a reference to its texture, which the main thread now releases.
LEMMA RunPendingKeeps ==
    ASSUME Inv, RunPending
    PROVE  Inv'
<1>1. /\ main.at = "drain" /\ pending # <<>> /\ pending' = Tail(pending)
      /\ loading' = loading \ {Head(pending)}
      /\ main' = Releasing(Head(pending))
      /\ UNCHANGED <<cache, file, ref, created, deleted, queue, avail, pool, held, loader,
                     lost, stale>>
  BY DEF RunPending, history, Inv, Running
<1>2. PICK u : u = Head(pending)
  OBVIOUS
<1>3. /\ u \in Textures /\ Called(u)
      /\ pending' \in Seq(Textures)
      /\ \A i, j \in 1 .. Len(pending') : pending'[i] = pending'[j] => i = j
      /\ \A t : Called(t)' <=> Called(t) /\ t # u
  <2>1. /\ pending \in Seq(Textures)
        /\ \A i, j \in 1 .. Len(pending) : pending[i] = pending[j] => i = j
    BY Types DEF Inv, Distinct
  <2>2. PICK s : s = pending
    OBVIOUS
  <2>3. s \in Seq(Textures) /\ s # <<>> /\ \A i, j \in 1 .. Len(s) : s[i] = s[j] => i = j
    BY <1>1, <1>2, <2>1, <2>2
  <2>4. /\ Len(s) \in Nat \ {0} /\ Head(s) = s[1] /\ Head(s) \in Textures
        /\ Tail(s) \in Seq(Textures) /\ Len(Tail(s)) = Len(s) - 1
        /\ \A i, j \in 1 .. Len(Tail(s)) : Tail(s)[i] = Tail(s)[j] => i = j
        /\ \A t : (\E i \in 1 .. Len(Tail(s)) : Tail(s)[i] = t)
                   <=> (\E i \in 1 .. Len(s) : s[i] = t) /\ t # Head(s)
    BY <2>3, TailOfDistinct
  <2>5. pending' = Tail(s) /\ u = Head(s)
    BY <1>1, <1>2, <2>2
  <2>6. u \in Textures /\ pending' \in Seq(Textures)
    BY <2>2, <2>4, <2>5
  <2>7. \A i, j \in 1 .. Len(pending') : pending'[i] = pending'[j] => i = j
    BY <2>4, <2>5
  <2>8. 1 \in 1 .. Len(pending) /\ pending[1] = u
    BY <2>2, <2>4, <2>5
  <2>9. \A t : Called(t)' <=> Called(t) /\ t # u
    <3>1. \A t : (\E i \in 1 .. Len(Tail(s)) : Tail(s)[i] = t)
                   <=> (\E i \in 1 .. Len(s) : s[i] = t) /\ t # u
      BY <2>4, <2>5
    <3>2. pending = s /\ pending' = Tail(s)
      BY <2>2, <2>5
    <3>q. QED
      BY <3>1, <3>2 DEF Called
  <2>q. QED
    BY <2>6, <2>7, <2>8, <2>9 DEF Called
<1>4. main' \in MainStates /\ main'.at = "releaseStore" /\ main'.tex = u
  BY <1>1, <1>2, <1>3, ReleasingAt
<1>5. u \in created /\ ~Queued(u) /\ ~Unscheduled(u)
  BY <1>3 DEF Inv, Accounts, Account, Known, Places
<1>6. TypeOK'
  BY <1>1, <1>3, <1>4 DEF Inv, TypeOK, MainStates
<1>7. ASSUME NEW t \in Textures
      PROVE  Account(t)'
  <2>1. Account(t)
    BY DEF Inv, Accounts
  <2>2. CASE t # u
    <3>1. Untouched(t)
      BY <1>1, <1>3, <1>4, <2>2, MainLeaves DEF Queued, Exact, Loops
    <3>q. QED
      BY <2>1, <3>1, UntouchedStays
  <2>3. CASE t = u
    <3>1. /\ Queued(t)' <=> Queued(t)
          /\ Called(t) /\ ~Called(t)'
          /\ Carried(t)' <=> Carried(t)
          /\ Unscheduled(t)' <=> Unscheduled(t)
          /\ LoaderDeletes(t)' <=> LoaderDeletes(t)
          /\ Exact(t)' <=> Exact(t)
          /\ ~Inserting(t) /\ ~Inserting(t)' /\ ~Releases(t) /\ Releases(t)'
          /\ ~Keeping(t)' /\ ~MainDeletes(t) /\ ~MainDeletes(t)'
      BY <1>1, <1>3, <1>4, <2>3 DEF Queued, Carried, Unscheduled, LoaderDeletes,
         Exact, Inserting, Releases, Keeping, MainDeletes
    <3>2. Users(t)' = Users(t)
      BY <1>1, <3>1 DEF Users, One
    <3>q. QED
      BY <1>1, <1>5, <2>1, <2>3, <3>1, <3>2 DEF Account, Known, Places, Counted
  <2>q. QED
    BY <2>2, <2>3
<1>8. Cached' /\ Found'
  BY <1>1, <1>4, NamesStay DEF Inv, Inserting
<1>9. Distinct' /\ Running'
  BY <1>1, <1>3, <1>4 DEF Inv, Distinct, Running, Loops
<1>q. QED
  BY <1>6, <1>7, <1>8, <1>9 DEF Inv, Accounts

-----------------------------------------------------------------------------
(* The loading thread. *)

LEMMA LoaderWaitKeeps ==
    ASSUME Inv, LoaderWait
    PROVE  Inv'
<1>1. /\ loader.at = "wait" /\ avail > 0 /\ avail' = avail - 1
      /\ loader' = [loader EXCEPT !.at = "take"]
      /\ UNCHANGED <<cache, file, ref, created, deleted, loading, queue, pending, pool,
                     held, main, lost, stale>>
  BY DEF LoaderWait, objects, history
<1>2. loader' \in LoaderStates /\ loader'.at = "take"
  BY <1>1, Types DEF LoaderStates, LoaderAt, Inv
<1>3. avail' \in 0 .. Len(queue)
  BY <1>1, Types DEF Inv, TypeOK
<1>4. TypeOK'
  BY <1>1, <1>2, <1>3 DEF Inv, TypeOK, LoaderStates
<1>5. ASSUME NEW t \in Textures
      PROVE  Account(t)'
  <2>1. Account(t)
    BY DEF Inv, Accounts
  <2>2. Untouched(t)
    BY <1>1, <1>2 DEF Untouched, Queued, Called, Carried, Unscheduled, Inserting, Releases,
       Keeping, MainDeletes, LoaderDeletes, MainHas, LoaderHas, Exact
  <2>q. QED
    BY <2>1, <2>2, UntouchedStays
<1>6. Cached' /\ Found'
  BY <1>1, NamesStay DEF Inv, Inserting
<1>7. Distinct'
  BY <1>1 DEF Inv, Distinct
<1>8. Running'
  BY <1>1, <1>2, <1>3, Types DEF Inv, Running
<1>q. QED
  BY <1>4, <1>5, <1>6, <1>7, <1>8 DEF Inv, Accounts

\* The semaphore counts the queue: there is a texture to take.
LEMMA LoaderTakeKeeps ==
    ASSUME Inv, LoaderTake
    PROVE  Inv'
<1>1. /\ loader.at = "take"
      /\ loader' = [loader EXCEPT !.at = "decode", !.tex = Head(queue)]
      /\ queue' = Tail(queue)
      /\ UNCHANGED <<cache, file, ref, created, deleted, loading, avail, pending, pool,
                     held, main, lost, stale>>
  BY DEF LoaderTake, objects, history
<1>2. queue # <<>> /\ Len(queue) = avail + 1 /\ avail \in Nat
  BY <1>1, Types, EmptySeq DEF Inv, Running
<1>3. PICK u : u = Head(queue)
  OBVIOUS
<1>4. /\ u \in Textures /\ Queued(u)
      /\ queue' \in Seq(Textures) /\ Len(queue') = avail
      /\ \A i, j \in 1 .. Len(queue') : queue'[i] = queue'[j] => i = j
      /\ \A t : Queued(t)' <=> Queued(t) /\ t # u
  <2>1. /\ queue \in Seq(Textures)
        /\ \A i, j \in 1 .. Len(queue) : queue[i] = queue[j] => i = j
    BY Types DEF Inv, Distinct
  <2>2. PICK s : s = queue
    OBVIOUS
  <2>3. s \in Seq(Textures) /\ s # <<>> /\ \A i, j \in 1 .. Len(s) : s[i] = s[j] => i = j
    BY <1>1, <1>2, <1>3, <2>1, <2>2
  <2>4. /\ Len(s) \in Nat \ {0} /\ Head(s) = s[1] /\ Head(s) \in Textures
        /\ Tail(s) \in Seq(Textures) /\ Len(Tail(s)) = Len(s) - 1
        /\ \A i, j \in 1 .. Len(Tail(s)) : Tail(s)[i] = Tail(s)[j] => i = j
        /\ \A t : (\E i \in 1 .. Len(Tail(s)) : Tail(s)[i] = t)
                   <=> (\E i \in 1 .. Len(s) : s[i] = t) /\ t # Head(s)
    BY <2>3, TailOfDistinct
  <2>5. queue' = Tail(s) /\ u = Head(s)
    BY <1>1, <1>2, <1>3, <2>2
  <2>6. u \in Textures /\ queue' \in Seq(Textures) /\ Len(queue') = avail
    BY <1>2, <2>2, <2>4, <2>5
  <2>7. \A i, j \in 1 .. Len(queue') : queue'[i] = queue'[j] => i = j
    BY <2>4, <2>5
  <2>8. 1 \in 1 .. Len(queue) /\ queue[1] = u
    BY <2>2, <2>4, <2>5
  <2>9. \A t : Queued(t)' <=> Queued(t) /\ t # u
    <3>1. \A t : (\E i \in 1 .. Len(Tail(s)) : Tail(s)[i] = t)
                   <=> (\E i \in 1 .. Len(s) : s[i] = t) /\ t # u
      BY <2>4, <2>5
    <3>2. queue = s /\ queue' = Tail(s)
      BY <2>2, <2>5
    <3>q. QED
      BY <3>1, <3>2 DEF Queued
  <2>q. QED
    BY <2>6, <2>7, <2>8, <2>9 DEF Queued
<1>5. loader' \in LoaderStates /\ loader'.at = "decode" /\ loader'.tex = u
  BY <1>1, <1>3, <1>4, Types DEF LoaderStates, LoaderAt, Inv
<1>6. u \in created /\ ~Called(u)
  BY <1>4 DEF Inv, Accounts, Account, Known, Places
<1>7. TypeOK'
  BY <1>1, <1>2, <1>4, <1>5 DEF Inv, TypeOK, LoaderStates
<1>8. ASSUME NEW t \in Textures
      PROVE  Account(t)'
  <2>1. Account(t)
    BY DEF Inv, Accounts
  <2>2. CASE t # u
    <3>1. Untouched(t)
      BY <1>1, <1>4, <1>5, <2>2, LoaderLeaves DEF Called, Exact
    <3>q. QED
      BY <2>1, <3>1, UntouchedStays
  <2>3. CASE t = u
    <3>1. /\ Queued(t) /\ ~Queued(t)'
          /\ ~Called(t)'
          /\ ~Carried(t) /\ Carried(t)'
          /\ ~LoaderDeletes(t) /\ ~LoaderDeletes(t)'
          /\ Exact(t)' <=> Exact(t)
          /\ Inserting(t)' <=> Inserting(t)
          /\ Releases(t)' <=> Releases(t)
          /\ Keeping(t)' <=> Keeping(t)
          /\ MainDeletes(t)' <=> MainDeletes(t)
      BY <1>1, <1>4, <1>5, <1>6, <2>3 DEF Called, Carried, LoaderDeletes, Exact, Inserting,
         Releases, Keeping, MainDeletes
    <3>2. Users(t)' = Users(t)
      BY <1>1, <1>6, <2>3, <3>1 DEF Users, One, Called
    <3>q. QED
      BY <1>1, <1>6, <2>1, <2>3, <3>1, <3>2 DEF Account, Known, Places, Counted
  <2>q. QED
    BY <2>2, <2>3
<1>9. Cached' /\ Found'
  BY <1>1, NamesStay DEF Inv, Inserting
<1>10. Distinct'
  BY <1>1, <1>4 DEF Inv, Distinct
<1>11. Running'
  BY <1>1, <1>2, <1>4, <1>5 DEF Inv, Running
<1>q. QED
  BY <1>7, <1>8, <1>9, <1>10, <1>11 DEF Inv, Accounts

\* A texture that cannot be loaded loses its name; no other does.
LEMMA LoaderDecodeKeeps ==
    ASSUME Inv, LoaderDecode
    PROVE  Inv'
<1> USE NamesAssumption
<1>1. PICK u \in Textures : u = loader.tex /\ u \in created
  BY LoaderWorks DEF LoaderDecode
<1>2. /\ loader.at = "decode"
      /\ UNCHANGED <<cache, ref, created, deleted, loading, queue, avail, pending, pool,
                     held, main, lost, stale>>
      /\ \/ /\ file' = [file EXCEPT ![u] = NoFile]
            /\ loader' = [loader EXCEPT !.at = "release"]
         \/ /\ loader' = [loader EXCEPT !.at = "schedule"]
            /\ UNCHANGED file
  BY <1>1 DEF LoaderDecode, work, history
<1>3. /\ loader' \in LoaderStates /\ loader'.at \in {"release", "schedule"}
      /\ loader'.tex = u
  BY <1>1, <1>2, Types DEF LoaderStates, LoaderAt, Inv
<1>4. /\ file' \in [Textures -> Keys]
      /\ \A t \in Textures : file'[t] \in {file[t], NoFile}
  BY <1>2, Types DEF Inv, Keys
<1>5. TypeOK'
  BY <1>2, <1>3, <1>4 DEF Inv, TypeOK, LoaderStates
<1>6. ASSUME NEW t \in Textures
      PROVE  Account(t)'
  <2>1. Account(t)
    BY DEF Inv, Accounts
  <2>2. Untouched(t)
    BY <1>1, <1>2, <1>3 DEF Untouched, Queued, Called, Carried, Unscheduled, Inserting,
       Releases, Keeping, MainDeletes, LoaderDeletes, MainHas, LoaderHas, Exact
  <2>q. QED
    BY <2>1, <2>2, UntouchedStays
<1>7. ASSUME NEW t \in Textures
      PROVE  FoundAt(t)'
  <2>1. FoundAt(t) /\ (Inserting(t)' <=> Inserting(t))
    BY <1>2 DEF Inv, Found, Inserting
  <2>q. QED
    BY <1>2, <1>4, <2>1 DEF FoundAt, StandsIn
<1>8. Cached'
  BY <1>2, <1>4 DEF Inv, Cached, CachedAt
<1>9. Distinct' /\ Running'
  BY <1>1, <1>2, <1>3 DEF Inv, Distinct, Running
<1>q. QED
  BY <1>5, <1>6, <1>7, <1>8, <1>9 DEF Inv, Accounts, Found

\* To load the count changes nothing yet.
LEMMA LoaderLoads ==
    ASSUME Inv,
           \/ loader.at = "schedule" /\ loader'.at = "retainStore"
           \/ loader.at = "release" /\ loader'.at = "releaseStore",
           loader' \in LoaderStates, loader'.tex = loader.tex,
           UNCHANGED <<cache, objects, ref, work, pool, held, main, history>>
    PROVE  Inv'
<1>1. UNCHANGED <<cache, file, ref, created, deleted, loading, queue, avail, pending, pool,
                  held, main, lost, stale>>
  BY DEF objects, work, history
<1>2. TypeOK'
  BY <1>1 DEF Inv, TypeOK, LoaderStates
<1>3. ASSUME NEW t \in Textures
      PROVE  Account(t)'
  <2>1. Account(t)
    BY DEF Inv, Accounts
  <2>2. Untouched(t)
    BY <1>1 DEF Untouched, Queued, Called, Carried, Unscheduled, Inserting, Releases,
       Keeping, MainDeletes, LoaderDeletes, MainHas, LoaderHas, Exact
  <2>q. QED
    BY <2>1, <2>2, UntouchedStays
<1>4. Cached' /\ Found'
  BY <1>1, NamesStay DEF Inv, Inserting
<1>5. Distinct' /\ Running'
  BY <1>1 DEF Inv, Distinct, Running
<1>q. QED
  BY <1>2, <1>3, <1>4, <1>5 DEF Inv, Accounts

LEMMA LoaderLockKeeps ==
    ASSUME Inv, LoaderLock
    PROVE  Inv'
<1>1. PICK u \in Textures : u = loader.tex
  BY LoaderWorks DEF LoaderLock
<1>2. /\ loader.at = "schedule"
      /\ loader' = [loader EXCEPT !.at = "retainStore", !.count = ref[u]]
      /\ UNCHANGED <<cache, objects, ref, work, pool, held, main, history>>
  BY <1>1 DEF LoaderLock
<1>3. loader' \in LoaderStates /\ loader'.at = "retainStore" /\ loader'.tex = loader.tex
  BY <1>1, <1>2, Types DEF LoaderStates, LoaderAt, Inv
<1>q. QED
  BY <1>2, <1>3, LoaderLoads

LEMMA LoaderReleaseKeeps ==
    ASSUME Inv, LoaderRelease
    PROVE  Inv'
<1>1. PICK u \in Textures : u = loader.tex
  BY LoaderWorks DEF LoaderRelease
<1>2. /\ loader.at = "release"
      /\ loader' = [loader EXCEPT !.at = "releaseStore", !.count = ref[u]]
      /\ UNCHANGED <<cache, objects, ref, work, pool, held, main, history>>
  BY <1>1 DEF LoaderRelease
<1>3. loader' \in LoaderStates /\ loader'.at = "releaseStore" /\ loader'.tex = loader.tex
  BY <1>1, <1>2, Types DEF LoaderStates, LoaderAt, Inv
<1>q. QED
  BY <1>2, <1>3, LoaderLoads

LEMMA LoaderScheduleKeeps ==
    ASSUME Inv, LoaderSchedule
    PROVE  Inv'
<1>1. PICK u \in Textures : u = loader.tex /\ u \in created
  BY LoaderWorks DEF LoaderSchedule
<1>2. PICK n \in Int : n = loader.count
  BY Types DEF Inv, LoaderStates
<1>3. /\ loader.at = "retainStore"
      /\ ref' = [ref EXCEPT ![u] = n + 1]
      /\ lost' = IF ref[u] = n THEN lost ELSE lost \cup {u}
      /\ pending' = Append(pending, u)
      /\ loader' = [loader EXCEPT !.at = "release", !.count = 0]
      /\ UNCHANGED <<cache, file, created, deleted, loading, queue, avail, pool, held, main,
                     stale>>
  BY <1>1, <1>2 DEF LoaderSchedule, Store, objects
<1>4. loader' \in LoaderStates /\ loader'.at = "release" /\ loader'.tex = u
  <2>1. PICK k \in Int : k = 0
    OBVIOUS
  <2>2. loader' = [loader EXCEPT !.at = "release", !.count = k]
    BY <1>3, <2>1
  <2>q. QED
    BY <1>1, <2>2, Types DEF LoaderStates, LoaderAt, Inv
<1>5. /\ ref' \in [Textures -> Int] /\ ref'[u] = n + 1
      /\ \A t \in Textures : t # u => ref'[t] = ref[t]
  BY <1>2, <1>3, Types DEF Inv
<1>6. /\ pending' \in Seq(Textures) /\ Len(pending) \in Nat
      /\ Len(pending') = Len(pending) + 1
      /\ \A i \in 1 .. Len(pending) : pending'[i] = pending[i]
      /\ pending'[Len(pending) + 1] = u
  BY <1>3, Types, AppendToSeq DEF Inv
<1>7. ASSUME NEW t \in Textures
      PROVE  Called(t)' <=> Called(t) \/ t = u
  <2>1. 1 .. Len(pending') = 1 .. Len(pending) \cup {Len(pending) + 1}
    BY <1>6
  <2>q. QED
    BY <1>6, <2>1 DEF Called
<1>8. Carried(u) /\ Unscheduled(u) /\ ~Called(u) /\ ~Queued(u)
  <2>1. Carried(u) /\ Unscheduled(u) /\ Account(u)
    BY <1>1, <1>3 DEF Carried, Unscheduled, Inv, Accounts
  <2>q. QED
    BY <2>1 DEF Account, Places
<1>9. TypeOK'
  BY <1>1, <1>3, <1>4, <1>5, <1>6 DEF Inv, TypeOK, LoaderStates
<1>10. ASSUME NEW t \in Textures
       PROVE  Account(t)'
  <2>1. Account(t)
    BY DEF Inv, Accounts
  <2>2. CASE t # u
    <3>1. Untouched(t)
      BY <1>1, <1>3, <1>4, <1>5, <1>7, <2>2, LoaderLeaves DEF Queued, Exact
    <3>q. QED
      BY <2>1, <3>1, UntouchedStays
  <2>3. CASE t = u
    <3>1. /\ ~Queued(t) /\ ~Queued(t)'
          /\ ~Called(t) /\ Called(t)'
          /\ Carried(t) /\ Carried(t)' /\ ~Unscheduled(t)'
          /\ ~LoaderDeletes(t) /\ ~LoaderDeletes(t)'
          /\ Inserting(t)' <=> Inserting(t)
          /\ Releases(t)' <=> Releases(t)
          /\ Keeping(t)' <=> Keeping(t)
          /\ MainDeletes(t)' <=> MainDeletes(t)
      BY <1>1, <1>3, <1>4, <1>7, <1>8, <2>3 DEF Queued, Carried, Unscheduled, LoaderDeletes,
         Inserting, Releases, Keeping, MainDeletes
    <3>2. Users(t)' = Users(t) + 1 /\ Users(t) \in 1 .. 6
      BY <1>3, <3>1 DEF Users, One
    <3>3. Exact(t)' => Exact(t) /\ ref[t] = n
      BY <1>3, <2>3 DEF Exact
    <3>4. Exact(t)' => ref[t] = Users(t) /\ t \notin deleted /\ ~MainDeletes(t)
      BY <1>1, <2>1, <2>3, <3>2, <3>3 DEF Account, Counted
    <3>5. Exact(t)' => ref'[t] = Users(t)' /\ Users(t)' # 0
      BY <1>5, <2>3, <3>2, <3>3, <3>4
    <3>q. QED
      BY <1>1, <1>3, <2>1, <2>3, <3>1, <3>3, <3>4, <3>5 DEF Account, Known, Places, Counted
  <2>q. QED
    BY <2>2, <2>3
<1>11. Cached' /\ Found'
  BY <1>3, NamesStay DEF Inv, Inserting
<1>12. Distinct'
  <2>1. \A i, j \in 1 .. Len(pending') : pending'[i] = pending'[j] => i = j
    BY <1>6, <1>8 DEF Inv, Distinct, Called
  <2>q. QED
    BY <1>3, <2>1 DEF Inv, Distinct
<1>13. Running'
  <2>1. pending' # <<>>
    BY <1>6, EmptySeq
  <2>q. QED
    BY <1>1, <1>3, <1>4, <2>1 DEF Inv, Running
<1>q. QED
  BY <1>9, <1>10, <1>11, <1>12, <1>13 DEF Inv, Accounts

LEMMA LoaderReleaseStoreKeeps ==
    ASSUME Inv, LoaderReleaseStore
    PROVE  Inv'
<1>1. PICK u \in Textures : u = loader.tex /\ u \in created
  BY LoaderWorks DEF LoaderReleaseStore
<1>2. PICK n \in Int : n = loader.count
  BY Types DEF Inv, LoaderStates
<1>3. /\ loader.at = "releaseStore"
      /\ ref' = [ref EXCEPT ![u] = n - 1]
      /\ lost' = IF ref[u] = n THEN lost ELSE lost \cup {u}
      /\ loader' = [loader EXCEPT !.at = "releaseTest", !.count = n - 1]
      /\ UNCHANGED <<cache, file, created, deleted, loading, queue, avail, pending, pool,
                     held, main, stale>>
  <2>1. loader' = [loader EXCEPT !.at = "releaseTest", !.count = n - 1]
    BY <1>2 DEF LoaderReleaseStore
  <2>q. QED
    BY <1>1, <1>2, <2>1 DEF LoaderReleaseStore, Store, objects, work
<1>4. /\ loader' \in LoaderStates /\ loader'.at = "releaseTest" /\ loader'.tex = u
      /\ loader'.count = n - 1
  <2>1. PICK k \in Int : k = n - 1
    BY <1>2
  <2>2. loader' = [loader EXCEPT !.at = "releaseTest", !.count = k]
    BY <1>3, <2>1
  <2>3. /\ loader' \in LoaderStates /\ loader'.at = "releaseTest" /\ loader'.tex = u
        /\ loader'.count = k
    BY <1>1, <2>2, Types DEF Inv, LoaderStates, LoaderAt
  <2>q. QED
    BY <2>1, <2>3
<1>5. /\ ref' \in [Textures -> Int] /\ ref'[u] = n - 1
      /\ \A t \in Textures : t # u => ref'[t] = ref[t]
  BY <1>2, <1>3, Types DEF Inv
<1>6. TypeOK'
  BY <1>1, <1>3, <1>4, <1>5 DEF Inv, TypeOK, LoaderStates
<1>7. ASSUME NEW t \in Textures
      PROVE  Account(t)'
  <2>1. Account(t)
    BY DEF Inv, Accounts
  <2>2. CASE t # u
    <3>1. Untouched(t)
      BY <1>1, <1>3, <1>4, <1>5, <2>2, LoaderLeaves DEF Queued, Called, Exact
    <3>q. QED
      BY <2>1, <3>1, UntouchedStays
  <2>3. CASE t = u
    <3>1. /\ Queued(t)' <=> Queued(t)
          /\ Called(t)' <=> Called(t)
          /\ Carried(t) /\ ~Carried(t)' /\ ~Unscheduled(t)'
          /\ ~LoaderDeletes(t) /\ (LoaderDeletes(t)' <=> n = 1)
          /\ Inserting(t)' <=> Inserting(t)
          /\ Releases(t)' <=> Releases(t)
          /\ Keeping(t)' <=> Keeping(t)
          /\ MainDeletes(t)' <=> MainDeletes(t)
      BY <1>1, <1>2, <1>3, <1>4, <2>3 DEF Queued, Called, Carried, Unscheduled,
         LoaderDeletes, Inserting, Releases, Keeping, MainDeletes
    <3>2. ~Queued(t)
      BY <2>1, <3>1 DEF Account, Places
    <3>3. Users(t)' = Users(t) - 1 /\ Users(t) \in 1 .. 6
      BY <1>3, <3>1, <3>2 DEF Users, One
    <3>4. Exact(t)' => Exact(t) /\ ref[t] = n
      BY <1>3, <2>3 DEF Exact
    <3>5. Exact(t)' => ref[t] = Users(t) /\ t \notin deleted /\ ~MainDeletes(t)
      BY <1>1, <2>1, <2>3, <3>3, <3>4 DEF Account, Counted
    <3>6. Exact(t)' => ref'[t] = Users(t)' /\ (Users(t)' = 0 <=> n = 1)
      BY <1>2, <1>5, <2>3, <3>3, <3>4, <3>5
    <3>q. QED
      BY <1>1, <1>3, <2>1, <2>3, <3>1, <3>2, <3>4, <3>5, <3>6 DEF Account, Known, Places,
         Counted
  <2>q. QED
    BY <2>2, <2>3
<1>8. Cached' /\ Found'
  BY <1>3, NamesStay DEF Inv, Inserting
<1>9. Distinct' /\ Running'
  BY <1>1, <1>3, <1>4 DEF Inv, Distinct, Running
<1>q. QED
  BY <1>6, <1>7, <1>8, <1>9 DEF Inv, Accounts

LEMMA LoaderReleaseTestKeeps ==
    ASSUME Inv, LoaderReleaseTest
    PROVE  Inv'
<1>1. PICK u \in Textures : u = loader.tex /\ u \in created
  BY LoaderWorks DEF LoaderReleaseTest
<1>2. PICK m : /\ lost' = IF (m = 0) = (loader.count = 0) THEN lost ELSE lost \cup {u}
               /\ loader' = IF m = 0 THEN [loader EXCEPT !.at = "destroy", !.count = 0]
                                     ELSE LoaderFree
  BY <1>1 DEF LoaderReleaseTest, Test
<1>3. /\ loader.at = "releaseTest"
      /\ UNCHANGED <<cache, file, ref, created, deleted, loading, queue, avail, pending, pool,
                     held, main, stale>>
  BY DEF LoaderReleaseTest, objects, work
<1>4. /\ loader' \in LoaderStates
      /\ m = 0 => loader'.at = "destroy" /\ loader'.tex = u
      /\ m # 0 => loader'.at = "wait"
  <2>1. CASE m = 0
    <3>1. PICK k \in Int : k = 0
      OBVIOUS
    <3>2. loader' = [loader EXCEPT !.at = "destroy", !.count = k]
      BY <1>2, <2>1, <3>1
    <3>3. loader' \in LoaderStates /\ loader'.at = "destroy" /\ loader'.tex = u
      BY <1>1, <3>2, Types DEF Inv, LoaderStates, LoaderAt
    <3>q. QED
      BY <2>1, <3>3
  <2>2. CASE m # 0
    BY <1>2, <2>2, LoaderHead
  <2>q. QED
    BY <2>1, <2>2
<1>5. TypeOK'
  BY <1>1, <1>2, <1>3, <1>4 DEF Inv, TypeOK, LoaderStates
<1>6. ASSUME NEW t \in Textures
      PROVE  Account(t)'
  <2>1. Account(t)
    BY DEF Inv, Accounts
  <2>2. Untouched(t)
    <3>1. CASE t # u
      BY <1>1, <1>2, <1>3, <1>4, <3>1, LoaderLeaves DEF Queued, Called, Exact
    <3>2. CASE t = u
      <4>1. /\ ~Carried(t) /\ ~Carried(t)' /\ ~Unscheduled(t)'
            /\ LoaderDeletes(t) <=> loader.count = 0
            /\ LoaderDeletes(t)' <=> m = 0
        BY <1>1, <1>3, <1>4, <3>2 DEF Carried, Unscheduled, LoaderDeletes
      <4>2. Exact(t)' => Exact(t) /\ (m = 0 <=> loader.count = 0)
        BY <1>2, <1>3, <3>2 DEF Exact
      <4>q. QED
        BY <1>1, <1>3, <3>2, <4>1, <4>2 DEF Untouched, Queued, Called, Inserting, Releases,
           Keeping, MainDeletes
    <3>q. QED
      BY <3>1, <3>2
  <2>q. QED
    BY <2>1, <2>2, UntouchedStays
<1>7. Cached' /\ Found'
  BY <1>3, NamesStay DEF Inv, Inserting
<1>8. Distinct' /\ Running'
  BY <1>1, <1>3, <1>4 DEF Inv, Distinct, Running
<1>q. QED
  BY <1>5, <1>6, <1>7, <1>8 DEF Inv, Accounts

LEMMA LoaderDestroyKeeps ==
    ASSUME Inv, LoaderDestroy, ~Dangling
    PROVE  Inv'
<1>1. PICK u \in Textures : u = loader.tex /\ u \in created /\ u \notin deleted
  <2>1. loader.tex \in Textures /\ loader.tex \in created
    BY LoaderWorks DEF LoaderDestroy
  <2>2. loader.tex \in Used
    BY <2>1 DEF Used, LoaderDestroy
  <2>q. QED
    BY <2>1, <2>2 DEF Dangling
<1>2. /\ loader.at = "destroy" /\ main.at # "insert"
      /\ deleted' = deleted \cup {u}
      /\ cache' = Erased(u)
      /\ loader' = LoaderFree
      /\ UNCHANGED <<file, ref, created, loading, queue, avail, pending, pool, held, main,
                     lost, stale>>
  BY <1>1 DEF LoaderDestroy, work, history
<1>3. loader' \in LoaderStates /\ loader'.at = "wait"
  BY <1>2, LoaderHead
<1>4. cache' \in [Keys -> Textures \cup {NoTexture}] /\ Cached' /\ Found'
  BY <1>1, <1>2, DestructorKeeps
<1>5. TypeOK'
  BY <1>1, <1>2, <1>3, <1>4 DEF Inv, TypeOK, LoaderStates
<1>6. ASSUME NEW t \in Textures
      PROVE  Account(t)'
  <2>1. Account(t)
    BY DEF Inv, Accounts
  <2>2. CASE t # u
    <3>1. Untouched(t)
      BY <1>1, <1>2, <1>3, <2>2, LoaderLeaves DEF Queued, Called, Exact
    <3>q. QED
      BY <2>1, <3>1, UntouchedStays
  <2>3. CASE t = u
    <3>1. /\ Queued(t)' <=> Queued(t)
          /\ Called(t)' <=> Called(t)
          /\ ~Carried(t) /\ ~Carried(t)' /\ ~Unscheduled(t)'
          /\ LoaderDeletes(t) /\ ~LoaderDeletes(t)'
          /\ Exact(t)' <=> Exact(t)
          /\ Inserting(t)' <=> Inserting(t)
          /\ Releases(t)' <=> Releases(t)
          /\ Keeping(t)' <=> Keeping(t)
          /\ MainDeletes(t)' <=> MainDeletes(t)
      BY <1>1, <1>2, <1>3, <2>3 DEF Queued, Called, Carried, Unscheduled, LoaderDeletes,
         Exact, Inserting, Releases, Keeping, MainDeletes
    <3>2. Users(t)' = Users(t)
      BY <1>2, <3>1 DEF Users, One
    <3>q. QED
      BY <1>1, <1>2, <2>1, <2>3, <3>1, <3>2 DEF Account, Known, Places, Counted
  <2>q. QED
    BY <2>2, <2>3
<1>7. Distinct' /\ Running'
  BY <1>2, <1>3 DEF Inv, Distinct, Running
<1>q. QED
  BY <1>4, <1>5, <1>6, <1>7 DEF Inv, Accounts

-----------------------------------------------------------------------------
(* The invariant. *)

LEMMA StutterKeeps ==
    ASSUME Inv, UNCHANGED vars
    PROVE  Inv'
<1>1. UNCHANGED <<cache, file, ref, created, deleted, loading, queue, avail, pending, pool,
                  held, main, loader, lost, stale>>
  BY DEF vars, objects, work, history
<1>2. TypeOK' /\ Distinct' /\ Running'
  BY <1>1 DEF Inv, TypeOK, Distinct, Running
<1>3. Cached' /\ Found'
  BY <1>1, NamesStay DEF Inv, Inserting
<1>4. ASSUME NEW t \in Textures
      PROVE  Account(t)'
  <2>1. Account(t)
    BY DEF Inv, Accounts
  <2>2. Untouched(t)
    BY <1>1 DEF Untouched, Queued, Called, Carried, Unscheduled, Inserting, Releases,
       Keeping, MainDeletes, LoaderDeletes, MainHas, LoaderHas, Exact
  <2>q. QED
    BY <2>1, <2>2, UntouchedStays
<1>q. QED
  BY <1>2, <1>3, <1>4 DEF Inv, Accounts

LEMMA InvNext == Inv /\ [Next]_vars => Inv'
<1> SUFFICES ASSUME Inv, [Next]_vars PROVE Inv'
  OBVIOUS
<1>1. CASE GetTexture
  BY <1>1, GetCachedKeeps, GetSyncKeeps, GetAsyncKeeps DEF GetTexture
<1>2. CASE \E t \in Textures : GameRelease(t)
  BY <1>2, GameReleaseKeeps
<1>3. CASE BeginPurge
  BY <1>3, BeginPurgeKeeps
<1>4. CASE Frame
  BY <1>4, BeginDrainKeeps DEF Frame
<1>5. CASE MainThread
  BY <1>5, InsertKeeps, KeepKeeps, IgnoreKeeps, RetainStoreKeeps, ReleaseStoreKeeps,
     ReleaseTestKeeps, DestroyKeeps, RunPendingKeeps, PoolReleaseKeeps DEF MainThread
<1>6. CASE Loader
  BY <1>6, LoaderWaitKeeps, LoaderTakeKeeps, LoaderDecodeKeeps, LoaderLockKeeps,
     LoaderScheduleKeeps, LoaderReleaseKeeps, LoaderReleaseStoreKeeps,
     LoaderReleaseTestKeeps, LoaderDestroyKeeps DEF Loader
<1>7. CASE UNCHANGED vars
  BY <1>7, StutterKeeps
<1>q. QED
  BY <1>1, <1>2, <1>3, <1>4, <1>5, <1>6, <1>7 DEF Next, GameCalls

LEMMA Invariance == Spec => []Inv
  BY InvInit, InvNext, PTL DEF Spec

-----------------------------------------------------------------------------
(* What follows. *)

\* The state is well formed: the semaphore is never posted for more textures than are
\* queued (HLTexture.cpp:150-220).
THEOREM TypeCorrect == Spec => []TypeOK
<1>1. Inv => TypeOK
  BY DEF Inv
<1>q. QED
  BY Invariance, <1>1, PTL

\* A texture whose count neither thread stored or tested over the other, and that the
\* game did not retain at 0, is deleted when the loading thread, the scheduled calls, the
\* pool and the game have all given it up, and never before; and the cache names no
\* deleted texture but one whose load failed (HLObject.h:65-77, HLTexture.cpp:86-130,
\* 163-171).
THEOREM TexturesLiveWhileUsed == Spec => []LivesWhileUsed
<1>1. ASSUME Inv
      PROVE  LivesWhileUsed
  <2>1. ASSUME NEW t \in created, Exact(t)
        PROVE  /\ t \in Used => t \notin deleted
               /\ t \notin Used \cup Tested => t \in deleted
    <3>1. t \in Textures /\ Account(t)
      BY <1>1 DEF Inv, TypeOK, Accounts
    <3>2. /\ Users(t) = 0 <=> t \in deleted \/ MainDeletes(t) \/ LoaderDeletes(t)
          /\ ~(t \in deleted /\ MainDeletes(t))
          /\ ~(t \in deleted /\ LoaderDeletes(t))
      BY <2>1, <3>1 DEF Account, Counted
    <3>3. /\ t \in ToSet(queue) <=> Queued(t)
          /\ t \in ToSet(pending) <=> Called(t)
      <4>1. queue \in Seq(Textures) /\ pending \in Seq(Textures)
        BY <1>1, Types DEF Inv
      <4>2. /\ ToSet(queue) = {queue[i] : i \in 1 .. Len(queue)}
            /\ ToSet(pending) = {pending[i] : i \in 1 .. Len(pending)}
        BY <4>1, ToSetOfSeq
      <4>q. QED
        BY <4>2, Zenon DEF Queued, Called
    <3>4. Users(t) = 0 <=> /\ t \notin pool /\ t \notin held /\ ~Inserting(t) /\ ~Releases(t)
                           /\ ~Queued(t) /\ ~Carried(t) /\ ~Called(t)
      BY DEF Users, One
    <3>5. loader.at \in LoaderAt
      BY <1>1, Types DEF Inv, LoaderStates
    <3>6. t \in Used <=> \/ t \in pool \/ t \in held \/ Queued(t) \/ Called(t)
                         \/ Inserting(t) \/ Releases(t) \/ Carried(t)
                         \/ main.at = "destroy" /\ main.tex = t
                         \/ loader.at = "destroy" /\ loader.tex = t
      BY <3>1, <3>3, <3>5 DEF Used, Inserting, Releases, Carried, LoaderAt
    <3>7. t \in Tested <=> \/ main.at = "releaseTest" /\ main.tex = t
                           \/ loader.at = "releaseTest" /\ loader.tex = t
      BY <3>1 DEF Tested
    <3>q. QED
      BY <3>2, <3>4, <3>6, <3>7 DEF MainDeletes, LoaderDeletes
  <2>2. ASSUME NEW f \in Keys, cache[f] \in deleted
        PROVE  cache[f] \in Failed
    <3>1. cache[f] \in Textures
      BY <1>1, <2>2 DEF Inv, TypeOK
    <3>q. QED
      BY <1>1, <2>2, <3>1 DEF Inv, Cached, CachedAt, Failed
  <2>q. QED
    BY <2>1, <2>2 DEF LivesWhileUsed, Exact
<1>q. QED
  BY Invariance, <1>1, PTL

\* Two textures that are alive have two names, unless they have lost theirs or the name
\* stands in for another (getTexture, HLTexture.cpp:100-130), whatever became of counts.
THEOREM FilesAreShared == Spec => []OnePerFile
<1>1. ASSUME Inv
      PROVE  OnePerFile
  <2> SUFFICES ASSUME NEW t \in created \ deleted, NEW u \in created \ deleted,
                      t # u, file[t] = file[u], file[t] # NoFile, ~StandsIn(file[t])
               PROVE  FALSE
    BY DEF OnePerFile, StandsIn
  <2>1. t \in Textures /\ u \in Textures
    BY <1>1 DEF Inv, TypeOK
  <2>2. FoundAt(t) /\ FoundAt(u)
    BY <1>1, <2>1 DEF Inv, Found
  <2>3. ~(Inserting(t) /\ Inserting(u))
    BY DEF Inserting
  <2>q. QED
    BY <2>1, <2>2, <2>3, NamesAssumption DEF FoundAt
<1>q. QED
  BY Invariance, <1>1, PTL
=============================================================================
