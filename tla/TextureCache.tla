---------------------------- MODULE TextureCache ----------------------------
(***************************************************************************)
(* HLTexture::getTexture: textures shared by file name through a cache     *)
(* that holds no reference to them, and the thread that decodes the image  *)
(* files of asynchronous loads and hands them to the main thread.          *)
(*                                                                         *)
(* getTexture and the destructor of a texture hold HLTexture::mMutex.      *)
(* getTexture gives no reference to the texture it returns: until the      *)
(* game's retain only the references of others keep it.                    *)
(*                                                                         *)
(* Nothing protects the counts: retain and release are a load and a store, *)
(* and release tests the count in a register or reads it again. The pool,  *)
(* the main loop and the game update the count of a texture that the       *)
(* loading thread retains and releases, so updates are lost; lost says     *)
(* which textures that happened to. Once something that is in use has been *)
(* deleted (Dangling) nothing is defined.                                  *)
(***************************************************************************)
EXTENDS SequencesExt

CONSTANTS
    Textures,      \* the HLTexture objects
    NoTexture,     \* the null pointer
    Files,         \* the names a game asks for
    NoFile,        \* the empty name
    Kind,          \* good, bad: no codec reads it, fallback: a .png there is only
                   \* a .webp of
    Alternative    \* the .webp of a .png

Keys == Files \cup {NoFile}

ASSUME NamesAssumption == NoFile \notin Files /\ NoTexture \notin Textures
ASSUME KindAssumption == Kind \in [Files -> {"good", "bad", "fallback"}]
ASSUME AlternativeAssumption == Alternative \in [Files -> Files]

VARIABLES
    cache,      \* texCache
    file,       \* mFile of each texture
    ref,        \* _refCount of each texture
    created,    \* the textures that were made
    deleted,    \* the textures that were deleted
    loading,    \* the textures whose mLoading is set
    queue,      \* img_loading_queue
    avail,      \* async_tex_avail
    pending,    \* loadWithImageCodecOnMainThread calls scheduled for the main loop
    pool,       \* the textures the autorelease pool has still to release
    held,       \* the textures the game has a reference to
    main,       \* the main thread: where it is, the texture and the count it works on,
                \* and the loop it goes back to
    loader,     \* the loading thread, likewise
    lost,       \* history: textures that an update or a test of the count went wrong
                \* for, since the other thread changed the count meanwhile
    stale       \* history: textures the game retained when their count was 0

objects == <<file, created, deleted, loading>>
work == <<queue, avail, pending>>
history == <<lost, stale>>
vars == <<cache, objects, ref, work, pool, held, main, loader, history>>

Loops == {"game", "drain", "purge"}
MainAt == Loops \cup {"insert", "got", "retainStore", "releaseStore", "releaseTest", "destroy"}
LoaderAt == {"wait", "take", "decode", "schedule", "retainStore", "release",
             "releaseStore", "releaseTest", "destroy"}

\* The main thread at the head of a loop, and the loading thread at that of its own.
MainIn(loop) == [at |-> loop, tex |-> NoTexture, count |-> 0, back |-> loop]
LoaderFree == [at |-> "wait", tex |-> NoTexture, count |-> 0]

Init ==
    /\ cache = [f \in Keys |-> NoTexture]
    /\ file = [t \in Textures |-> NoFile]
    /\ ref = [t \in Textures |-> 0]
    /\ created = {}
    /\ deleted = {}
    /\ loading = {}
    /\ queue = <<>>
    /\ avail = 0
    /\ pending = <<>>
    /\ pool = {}
    /\ held = {}
    /\ main = MainIn("game")
    /\ loader = LoaderFree
    /\ lost = {}
    /\ stale = {}

Game == main.at = "game"

\* Where the main thread goes on after a release: with the next round of a loop that
\* has one, or the game.
Resume ==
    MainIn(IF \/ main.back = "drain" /\ pending # <<>>
              \/ main.back = "purge" /\ pool # {}
           THEN main.back ELSE "game")

\* The name an asynchronous load gives the texture.
AsyncName(f) == IF Kind[f] = "fallback" THEN Alternative[f] ELSE f

\* What a destructor leaves of the cache: it erases the entry under its name.
Erased(t) == IF file[t] = NoFile THEN cache ELSE [cache EXCEPT ![file[t]] = NoTexture]

\* A thread that loaded count stores new: what others stored meanwhile is lost.
Store(t, count, new) ==
    /\ ref' = [ref EXCEPT ![t] = new]
    /\ lost' = IF ref[t] = count THEN lost ELSE lost \cup {t}

\* A release that stored count tests tested instead.
Test(t, count, tested) ==
    lost' = IF (tested = 0) = (count = 0) THEN lost ELSE lost \cup {t}

-----------------------------------------------------------------------------
(* getTexture. *)

\* new HLTexture(): objects that were not made yet differ in nothing.
NewTexture(t) == t \notin created /\ t = CHOOSE u \in Textures \ created : TRUE

\* The name is in the cache; the entry may dangle.
GetCached(f) ==
    /\ Game
    /\ cache[f] # NoTexture
    /\ main' = [main EXCEPT !.at = "got", !.tex = cache[f]]
    /\ UNCHANGED <<cache, objects, ref, work, pool, held, loader, history>>

\* loadWithFile: a file that cannot be read leaves nothing behind.
GetSync(f, t) ==
    /\ Game
    /\ cache[f] = NoTexture
    /\ NewTexture(t)
    /\ Kind[f] # "bad"
    /\ created' = created \cup {t}
    /\ file' = [file EXCEPT ![t] = f]
    /\ ref' = [ref EXCEPT ![t] = 1]
    /\ cache' = [cache EXCEPT ![f] = t]
    /\ pool' = pool \cup {t}
    /\ main' = [main EXCEPT !.at = "got", !.tex = t]
    /\ UNCHANGED <<deleted, loading, work, held, loader, history>>

\* loadWithFileAsync retains the texture for the loading thread, which does not know
\* it yet, queues it and posts the semaphore ...
GetAsync(f, t) ==
    /\ Game
    /\ cache[f] = NoTexture
    /\ NewTexture(t)
    /\ created' = created \cup {t}
    /\ file' = [file EXCEPT ![t] = AsyncName(f)]
    /\ ref' = [ref EXCEPT ![t] = 2]
    /\ loading' = loading \cup {t}
    /\ queue' = Append(queue, t)
    /\ avail' = avail + 1
    /\ main' = [main EXCEPT !.at = "insert", !.tex = t]
    /\ UNCHANGED <<cache, deleted, pending, pool, held, loader, history>>

\* Mutant: a texture that is still loading is not cached.
InsertNothing ==
    /\ main.at = "insert"
    /\ pool' = pool \cup {main.tex}
    /\ main' = [main EXCEPT !.at = "got"]
    /\ UNCHANGED <<cache, objects, ref, work, held, loader, history>>

\* ... and the texture goes to the cache, unless there is one under its name: the
\* name it has by now, which the loading thread may have cleared.
Insert ==
    /\ main.at = "insert"
    /\ LET f == file[main.tex]
       IN  cache' = IF cache[f] = NoTexture THEN [cache EXCEPT ![f] = main.tex] ELSE cache
    /\ pool' = pool \cup {main.tex}
    /\ main' = [main EXCEPT !.at = "got"]
    /\ UNCHANGED <<objects, ref, work, held, loader, history>>

-----------------------------------------------------------------------------
(* The main thread: the game and its counts. *)

\* The game retains the texture getTexture returned: load ...
Keep ==
    /\ main.at = "got"
    /\ main.tex \notin held
    /\ stale' = IF ref[main.tex] = 0 THEN stale \cup {main.tex} ELSE stale
    /\ main' = [main EXCEPT !.at = "retainStore", !.count = ref[main.tex]]
    /\ UNCHANGED <<cache, objects, ref, work, pool, held, loader, lost>>

\* ... and store;
RetainStore ==
    /\ main.at = "retainStore"
    /\ Store(main.tex, main.count, main.count + 1)
    /\ held' = held \cup {main.tex}
    /\ main' = MainIn("game")
    /\ UNCHANGED <<cache, objects, work, pool, loader, stale>>

\* or it has no use for it.
Ignore ==
    /\ main.at = "got"
    /\ main' = MainIn("game")
    /\ UNCHANGED <<cache, objects, ref, work, pool, held, loader, history>>

\* The main thread begins to release t: load ...
Releasing(t) == [main EXCEPT !.at = "releaseStore", !.tex = t, !.count = ref[t]]

GameRelease(t) ==
    /\ Game
    /\ t \in held
    /\ held' = held \ {t}
    /\ main' = Releasing(t)
    /\ UNCHANGED <<cache, objects, ref, work, pool, loader, history>>

\* ... store ...
ReleaseStore ==
    /\ main.at = "releaseStore"
    /\ Store(main.tex, main.count, main.count - 1)
    /\ main' = [main EXCEPT !.at = "releaseTest", !.count = @ - 1]
    /\ UNCHANGED <<cache, objects, work, pool, held, loader, stale>>

\* ... and test.
ReleaseTest ==
    /\ main.at = "releaseTest"
    /\ \E count \in {main.count, ref[main.tex]} :
          /\ Test(main.tex, main.count, count)
          /\ main' = IF count = 0 THEN [main EXCEPT !.at = "destroy", !.count = 0] ELSE Resume
    /\ UNCHANGED <<cache, objects, ref, work, pool, held, loader, stale>>

\* Mutant: the destructor leaves the cache alone.
DestroyWithoutErase ==
    /\ main.at = "destroy"
    /\ deleted' = deleted \cup {main.tex}
    /\ main' = Resume
    /\ UNCHANGED <<cache, file, ref, created, loading, work, pool, held, loader, history>>

Destroy ==
    /\ main.at = "destroy"
    /\ deleted' = deleted \cup {main.tex}
    /\ cache' = Erased(main.tex)
    /\ main' = Resume
    /\ UNCHANGED <<file, ref, created, loading, work, pool, held, loader, history>>

-----------------------------------------------------------------------------
(* The main thread: a frame drains the scheduled calls with                  *)
(* scheduleSelectorMutex held, and purges the pool at its end.               *)

BeginDrain ==
    /\ Game
    /\ pending # <<>>
    /\ loader.at # "retainStore"
    /\ main' = MainIn("drain")
    /\ UNCHANGED <<cache, objects, ref, work, pool, held, loader, history>>

\* Mutant: the call leaves mLoading set.
RunPendingStillLoading ==
    /\ main.at = "drain"
    /\ pending' = Tail(pending)
    /\ main' = Releasing(Head(pending))
    /\ UNCHANGED <<cache, objects, ref, queue, avail, pool, held, loader, history>>

\* loadWithImageCodecOnMainThread, and the release of its target.
RunPending ==
    /\ main.at = "drain"
    /\ pending' = Tail(pending)
    /\ loading' = loading \ {Head(pending)}
    /\ main' = Releasing(Head(pending))
    /\ UNCHANGED <<cache, file, created, deleted, ref, queue, avail, pool, held, loader,
                   history>>

BeginPurge ==
    /\ Game
    /\ pool # {}
    /\ main' = MainIn("purge")
    /\ UNCHANGED <<cache, objects, ref, work, pool, held, loader, history>>

PoolRelease(t) ==
    /\ main.at = "purge"
    /\ t \in pool
    /\ pool' = pool \ {t}
    /\ main' = Releasing(t)
    /\ UNCHANGED <<cache, objects, ref, work, held, loader, history>>

-----------------------------------------------------------------------------
(* The loading thread. *)

\* Mutant: sem_wait fails (EINTR) and the failure is not looked at.
LoaderWaitOrFail ==
    /\ loader.at = "wait"
    /\ avail' = avail - 1
    /\ loader' = [loader EXCEPT !.at = "take"]
    /\ UNCHANGED <<cache, objects, ref, queue, pending, pool, held, main, history>>

LoaderWait ==
    /\ loader.at = "wait"
    /\ avail > 0
    /\ avail' = avail - 1
    /\ loader' = [loader EXCEPT !.at = "take"]
    /\ UNCHANGED <<cache, objects, ref, queue, pending, pool, held, main, history>>

LoaderTake ==
    /\ loader.at = "take"
    /\ loader' = [loader EXCEPT !.at = "decode", !.tex = Head(queue)]
    /\ queue' = Tail(queue)
    /\ UNCHANGED <<cache, objects, ref, avail, pending, pool, held, main, history>>

\* loadImageCodec clears the name of a texture it cannot load.
LoaderDecode ==
    /\ loader.at = "decode"
    /\ IF Kind[file[loader.tex]] = "bad"
       THEN /\ file' = [file EXCEPT ![loader.tex] = NoFile]
            /\ loader' = [loader EXCEPT !.at = "release"]
       ELSE /\ loader' = [loader EXCEPT !.at = "schedule"]
            /\ UNCHANGED file
    /\ UNCHANGED <<cache, created, deleted, loading, ref, work, pool, held, main, history>>

\* performFuncOnMainThread: lock, retain, push_back, unlock.
LoaderLock ==
    /\ loader.at = "schedule"
    /\ main.back # "drain"
    /\ loader' = [loader EXCEPT !.at = "retainStore", !.count = ref[loader.tex]]
    /\ UNCHANGED <<cache, objects, ref, work, pool, held, main, history>>

\* Mutant: the scheduled call has no reference to its target.
LoaderScheduleUnretained ==
    /\ loader.at = "retainStore"
    /\ pending' = Append(pending, loader.tex)
    /\ loader' = [loader EXCEPT !.at = "release", !.count = 0]
    /\ UNCHANGED <<cache, objects, ref, queue, avail, pool, held, main, history>>

LoaderSchedule ==
    /\ loader.at = "retainStore"
    /\ Store(loader.tex, loader.count, loader.count + 1)
    /\ pending' = Append(pending, loader.tex)
    /\ loader' = [loader EXCEPT !.at = "release", !.count = 0]
    /\ UNCHANGED <<cache, objects, queue, avail, pool, held, main, stale>>

\* tex->release(), which may run the destructor here.
LoaderRelease ==
    /\ loader.at = "release"
    /\ loader' = [loader EXCEPT !.at = "releaseStore", !.count = ref[loader.tex]]
    /\ UNCHANGED <<cache, objects, ref, work, pool, held, main, history>>

LoaderReleaseStore ==
    /\ loader.at = "releaseStore"
    /\ Store(loader.tex, loader.count, loader.count - 1)
    /\ loader' = [loader EXCEPT !.at = "releaseTest", !.count = @ - 1]
    /\ UNCHANGED <<cache, objects, work, pool, held, main, stale>>

LoaderReleaseTest ==
    /\ loader.at = "releaseTest"
    /\ \E count \in {loader.count, ref[loader.tex]} :
          /\ Test(loader.tex, loader.count, count)
          /\ loader' = IF count = 0 THEN [loader EXCEPT !.at = "destroy", !.count = 0]
                                    ELSE LoaderFree
    /\ UNCHANGED <<cache, objects, ref, work, pool, held, main, stale>>

\* The destructor waits for mMutex while the main thread is in getTexture.
LoaderDestroy ==
    /\ loader.at = "destroy"
    /\ main.at # "insert"
    /\ deleted' = deleted \cup {loader.tex}
    /\ cache' = Erased(loader.tex)
    /\ loader' = LoaderFree
    /\ UNCHANGED <<file, ref, created, loading, work, pool, held, main, history>>

-----------------------------------------------------------------------------

\* The textures that somebody has a reference to, or is deleting.
Used ==
    held \cup pool \cup ToSet(queue) \cup ToSet(pending)
        \cup {t \in Textures :
                 \/ main.at \in {"insert", "releaseStore", "destroy"} /\ main.tex = t
                 \/ loader.at \notin {"wait", "take", "releaseTest"} /\ loader.tex = t}

\* What was deleted and is used all the same, or deleted again.
Dangling == Used \cap deleted # {}

GetTexture == \E f \in Files :
    GetCached(f) \/ \E t \in Textures : GetSync(f, t) \/ GetAsync(f, t)

\* What a game may do, and the steps of mainLoop: a frame begins, ...
GameCalls == GetTexture \/ \E t \in Textures : GameRelease(t)

Frame == ~Dangling /\ BeginDrain

\* ... and goes on, as every call does.
MainThread ==
    /\ ~Dangling
    /\ \/ Insert
       \/ Keep
       \/ Ignore
       \/ RetainStore
       \/ ReleaseStore
       \/ ReleaseTest
       \/ Destroy
       \/ RunPending
       \/ \E t \in Textures : PoolRelease(t)

Loader ==
    /\ ~Dangling
    /\ \/ LoaderWait
       \/ LoaderTake
       \/ LoaderDecode
       \/ LoaderLock
       \/ LoaderSchedule
       \/ LoaderRelease
       \/ LoaderReleaseStore
       \/ LoaderReleaseTest
       \/ LoaderDestroy

Next ==
    \/ ~Dangling /\ (GameCalls \/ BeginPurge)
    \/ Frame
    \/ MainThread
    \/ Loader

Spec == Init /\ [][Next]_vars

\* The main thread goes on, getTexture and the game's code around it return, frames
\* drain what is scheduled, and the loading thread keeps running: it gets a mutex that
\* is free again and again.
FairSpec == Spec /\ WF_vars(MainThread) /\ SF_vars(Frame) /\ SF_vars(Loader)

-----------------------------------------------------------------------------
(* Properties. *)

\* The state is well formed, and the semaphore is never posted for more textures than
\* are queued. A count below 0 stands for one that an unsigned counter wrapped round.
TypeOK ==
    /\ cache \in [Keys -> Textures \cup {NoTexture}]
    /\ file \in [Textures -> Keys]
    /\ ref \in [Textures -> Int]
    /\ created \in SUBSET Textures
    /\ deleted \in SUBSET created
    /\ loading \in SUBSET created
    /\ queue \in Seq(Textures)
    /\ avail \in 0 .. Len(queue)
    /\ pending \in Seq(Textures)
    /\ pool \in SUBSET created
    /\ held \in SUBSET created
    /\ main \in [at : MainAt, tex : Textures \cup {NoTexture}, count : Int, back : Loops]
    /\ loader \in [at : LoaderAt, tex : Textures \cup {NoTexture}, count : Int]
    /\ lost \in SUBSET created
    /\ stale \in SUBSET created

\* The textures an asynchronous load failed for: they have lost their name.
Failed == {t \in created : file[t] = NoFile}

\* The textures whose release is at its test.
Tested == {t \in Textures : \/ main.at = "releaseTest" /\ main.tex = t
                            \/ loader.at = "releaseTest" /\ loader.tex = t}

\* A texture lives exactly as long as a thread, a scheduled call, the pool or the game
\* has it, with two exceptions: an update of its count was lost to the other thread,
\* or the game retained it when the last reference was gone. And the cache names no
\* deleted texture, unless its destructor had no name left to erase.
LivesWhileUsed ==
    /\ \A t \in created \ (lost \cup stale) :
          /\ t \in Used => t \notin deleted
          /\ t \notin Used \cup Tested => t \in deleted
    /\ \A f \in Keys : cache[f] \in deleted => cache[f] \in Failed

\* A file that several parts of a game ask for is loaded into one texture, unless it
\* is the .webp that stands in for a .png: the cache has that under another name than
\* it is asked for (HLTexture.cpp:121, 190).
OnePerFile ==
    \A t, u \in created \ deleted :
        /\ t # u
        /\ file[t] = file[u]
        => file[t] = NoFile \/ \E f \in Files : Kind[f] = "fallback" /\ Alternative[f] = file[t]

\* Every asynchronous load ends, unless the program comes to use what it has deleted,
\* and except one that fails: the texture is not told and stays loading
\* (imageloadingthread, HLTexture.cpp:163-170).
EveryLoadEnds ==
    \A t \in Textures : t \in loading ~> t \notin loading \/ t \in Failed \/ Dangling
=============================================================================
