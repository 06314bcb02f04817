-------------------------- MODULE Swapchain_proofs --------------------------
(***************************************************************************)
(* Proofs about the swapchains of the off-screen layer.  For every         *)
(* application: types, the ring of pending images, and the FREE image that *)
(* an acquisition finds.  For an application with one thread: the end of   *)
(* an ancestor and the count of its semaphore.  For a swapchain alone: it  *)
(* implements PresentQueue.                                                *)
(***************************************************************************)
EXTENDS SwapchainProps, TLAPS, FiniteSetTheorems, SequenceTheorems

Alive(c) == app[c] \notin {"none", "gone"}

-----------------------------------------------------------------------------
(* Types, and which chain is whose neighbour.                              *)

\* The variables that hold a function for every chain.
ShapeOK ==
    /\ status = [c \in Chain |-> status[c]] /\ fence = [c \in Chain |-> fence[c]]
    /\ held = [c \in Chain |-> held[c]] /\ ring = [c \in Chain |-> ring[c]]
    /\ head = [c \in Chain |-> head[c]] /\ tail = [c \in Chain |-> tail[c]]
    /\ img = [c \in Chain |-> img[c]] /\ hand = [c \in Chain |-> hand[c]]

LinkOK(c) ==
    /\ ancestor[c] \in {NoChain, c - 1}
    /\ descendant[c] \in {NoChain, c + 1}
    /\ app[c] = "deprecate" => ancestor[c] = c - 1 /\ c - 1 \in Chain
    /\ descendant[c] # NoChain => ~Current(c)
    /\ app[c] \in {"presentLook", "tearLook", "startWait"} \/ started[c] => ~Current(c)
    /\ flip[c] = "drain" => c - 1 \in Chain
    /\ c + 1 \in Chain /\ app[c] = "none" => app[c + 1] = "none"
LinksOK == \A c \in Chain : LinkOK(c)

TInv == TypeOK /\ ShapeOK /\ LinksOK

-----------------------------------------------------------------------------
(* The way of an image: held, marked, in the ring, in the hand of the page *)
(* flip thread.                                                            *)

\* The statuses of an image that has been presented and not shown, and of one that
\* the application holds.  Once there is a descendant the image that has been shown
\* last is released, and the application may have acquired it again by then.
Queued(c) == IF Current(c) THEN {"PENDING"}
             ELSE IF first[c] THEN {"PENDING", "FREE"} ELSE {"PENDING", "FREE", "INVALID"}
Acquired(c) == IF Current(c) \/ first[c] THEN {"ACQUIRED"} ELSE {"ACQUIRED", "INVALID"}

IdleOK(c) ==
    /\ app[c] = "none" => flip[c] = "none"
    /\ app[c] = "gone" => flip[c] = "dead"
    /\ ~Alive(c) => \A i \in Images(c) : status[c][i] = "INVALID"
    /\ app[c] \in {"none", "deprecate", "gone"} =>
            flipSem[c] = 0 /\ held[c] = {} /\ head[c] = 0 /\ tail[c] = 0
    /\ app[c] = "deprecate" => flip[c] = "sleep"
    /\ app[c] \in {"acquire", "taken", "scan"} => (c + 1 \in Chain => app[c + 1] = "none")
    /\ app[c] \in {"submit", "mark", "presentLook"} => img[c] \in held[c]
    /\ app[c] \in {"none", "idle"} => k[c] = 0 /\ ~started[c]
    /\ app[c] \in {"acquire", "taken"} => k[c] = 0

HeldOK(c) == \A i \in held[c] : status[c][i] \in Acquired(c)

InQueue(c, i) == i \notin held[c] /\ status[c][i] \in Queued(c)

RingOK(c) ==
    /\ (head[c] + InRing(c)) % ImageCount[c] = tail[c]
    /\ \A m, n \in 0 .. InRing(c) - 1 : m # n => Slot(c, m) # Slot(c, n)
    /\ \A n \in 0 .. InRing(c) - 1 :
            /\ InQueue(c, Slot(c, n))
            /\ HasImage(c) => Slot(c, n) # hand[c]
            /\ app[c] = "enqueue" => Slot(c, n) # img[c]
MovingOK(c) ==
    /\ HasImage(c) => InQueue(c, hand[c])
    /\ app[c] = "enqueue" => InQueue(c, img[c])
    /\ HasImage(c) /\ app[c] = "enqueue" => hand[c] # img[c]

FirstOK(c) == first[c] => flip[c] \notin {"show", "shown"}

FlowOK(c) == IdleOK(c) /\ HeldOK(c) /\ RingOK(c) /\ MovingOK(c) /\ FirstOK(c)

FInv == \A c \in Chain : FlowOK(c)

-----------------------------------------------------------------------------
(* An application with one thread: who waits for whom when a swapchain and *)
(* its descendant come and go.                                             *)

Lone == \A c, d \in Chain : c # d /\ app[c] \notin Resting => app[d] \in Resting

\* Nothing of chain c will make its page flip thread wait for the ancestor.
Quiet(c) == first[c] => \A i \in Images(c) : status[c][i] # "PENDING"

NeighbourOK(c) ==
    /\ Alive(c) /\ ancestor[c] # NoChain => c - 1 \in Chain /\ Alive(c - 1)
    /\ c - 1 \in Chain /\ Alive(c - 1) /\ Alive(c) =>
            app[c] = "deprecate" \/ descendant[c - 1] = c
    /\ flip[c] \in {"first", "drain", "begin"} =>
            first[c] /\ status[c][hand[c]] = "PENDING"
    /\ flip[c] = "drain" => ancestor[c] # NoChain
    /\ startSem[c] > 0 => ~first[c]
    /\ c - 1 \in Chain /\ app[c - 1] = "tearLook" /\ ~started[c - 1] =>
            \A i \in Images(c) : i < k[c - 1] => status[c][i] # "PENDING"
    /\ c - 1 \in Chain /\ app[c - 1] \in {"count", "drain", "idling"} => Quiet(c)

NInv == Lone /\ \A c \in Chain : NeighbourOK(c)

-----------------------------------------------------------------------------
(* The semaphore of the free images, when threads wake up only when woken. *)

SleeperOK(t) ==
    /\ wait[t] # "awake" =>
         IF t[1] = "app" THEN app[t[2]] = "acquire" \/ (app[t[2]] = "drain" /\ left[t] > 0)
                         ELSE flip[t[2]] = "drain" /\ left[t] > 0
    /\ wait[t] = "woken" => freeCount[SemOf(t)] > 0

WInv == \A t \in Thread : SleeperOK(t)

\* The images that have left the semaphore and may come back to it: one taken from
\* it and not found yet, those held, the one marked, and the one of the page flip
\* thread.
Taken(c) == IF app[c] \in {"taken", "scan"} THEN 1 ELSE 0
Marked(c) == IF app[c] = "enqueue" THEN 1 ELSE 0
InHand(c) == IF HasImage(c) \/ flip[c] \in {"shown", "post"} THEN 1 ELSE 0
Tokens(c) ==
    freeCount[c] + Taken(c) + Cardinality(held[c]) + Marked(c) + InRing(c) + InHand(c)

CountOK(c) ==
    /\ app[c] = "none" => freeCount[c] = ImageCount[c]
    /\ Tokens(c) <= ImageCount[c]
CInv == \A c \in Chain : CountOK(c)

-----------------------------------------------------------------------------
(* Until something fails, the semaphore and the page flip thread account   *)
(* for the FREE images of a swapchain that may be acquired from.           *)

FreeImages(c) == {i \in Images(c) : status[c][i] = "FREE"}

Shown(c) == IF flip[c] \in {"shown", "post"} THEN 1 ELSE 0

OpenPlaces ==
    {"idle", "deprecate", "acquire", "taken", "scan", "submit", "mark", "enqueue", "post"}

\* Images of chain c may be acquired: it has no descendant, not even one being created.
Open(c) == app[c] \in OpenPlaces /\ (c + 1 \in Chain => app[c + 1] = "none")

\* ... and nothing has failed, so that more of them may be looked for.
Sound(c) == Open(c) /\ valid[c]

FreeOK(c) ==
    /\ app[c] = "none" => freeCount[c] = ImageCount[c] /\ wait[App(c)] = "awake"
    /\ Sound(c) =>
        /\ freeCount[c] + Taken(c) + Shown(c) = Cardinality(FreeImages(c))
        /\ wait[App(c)] = "woken" => freeCount[c] > 0
        /\ wait[App(c)] # "awake" => app[c] = "acquire"
    /\ app[c] = "scan" => \E i \in FreeImages(c) : i >= k[c]
AInv == \A c \in Chain : FreeOK(c)

-----------------------------------------------------------------------------
(* Lemmas about the operators of the model.                                *)

USE DEF Chain, NoChain

\* Every swapchain has images.
LEMMA Sizes ==
    /\ ChainCount \in Nat \ {0}
    /\ CountModulus \in Nat
    /\ \A c \in Chain : /\ ImageCount[c] \in Nat \ {0} /\ CountModulus > ImageCount[c] + 1
                        /\ 0 \in Images(c)
BY ConstantsAssumption DEF Images

\* A remainder is smaller than what is divided by.
LEMMA Remainder ==
    ASSUME NEW n \in Nat \ {0}, NEW a \in Int
    PROVE  a % n \in 0 .. n - 1
OBVIOUS

\* A change of what a function says of one chain.
LEMMA ChainChange ==
    ASSUME NEW f, f = [d \in Chain |-> f[d]], NEW c \in Chain, NEW v, NEW g,
           g = [f EXCEPT ![c] = v]
    PROVE  /\ g = [d \in Chain |-> g[d]] /\ g[c] = v
           /\ \A d \in Chain : d # c => g[d] = f[d]
OBVIOUS

\* A change of the status of one image.
LEMMA StatusChange ==
    ASSUME ShapeOK, TypeImages, NEW c \in Chain, NEW i \in Images(c), NEW v,
           status' = [status EXCEPT ![c][i] = v]
    PROVE  /\ status' = [d \in Chain |-> status'[d]]
           /\ status'[c] = [status[c] EXCEPT ![i] = v]
           /\ \A d \in Chain : d # c => status'[d] = status[d]
BY DEF ShapeOK, TypeImages

\* A change of the fence of one image.
LEMMA FenceChange ==
    ASSUME ShapeOK, TypeImages, NEW c \in Chain, NEW i \in Images(c), NEW v,
           fence' = [fence EXCEPT ![c][i] = v]
    PROVE  /\ fence' = [d \in Chain |-> fence'[d]]
           /\ fence'[c] = [fence[c] EXCEPT ![i] = v]
           /\ \A d \in Chain : d # c => fence'[d] = fence[d]
BY DEF ShapeOK, TypeImages

\* What a wait for pending images takes is a whole number.
LEMMA ToDrainInt == ASSUME NEW c \in Chain PROVE ToDrain(c) \in Int
<1> DEFINE A == {i \in Images(c) : status[c][i] = "ACQUIRED"}
<1>1. ImageCount[c] \in Nat
    BY Sizes
<1>2. IsFiniteSet(Images(c))
    BY <1>1, FS_Interval DEF Images
<1>3. Cardinality(A) \in Nat
    BY <1>2, FS_Subset, FS_CardinalityType
<1> QED
    BY <1>1, <1>3 DEF ToDrain

\* A member of a chain's semaphore counts is again one when one is taken or given.
LEMMA CountRange ==
    ASSUME NEW n \in 0 .. CountModulus - 1
    PROVE  Decrement(n) \in 0 .. CountModulus - 1 /\ (n + 1) % CountModulus \in 0 .. CountModulus - 1
BY Sizes, Remainder DEF Decrement

-----------------------------------------------------------------------------
(* Types.                                                                  *)

USE DEF imageVars, ringVars, semVars, flagVars, linkVars, callVars, appVars, flipVars,
        vars, appRest, flipRest


\* The types and shapes at the beginning.
LEMMA TInit == Init => TInv
<1> SUFFICES ASSUME Init PROVE TInv
    OBVIOUS
<1>1. TypeImages /\ TypeRing
    BY Sizes DEF Init, TypeImages, TypeRing, Images
<1>2. TypeSemaphores
    <2>1. \A c \in Chain : freeCount[c] \in 0 .. CountModulus - 1
        BY Sizes DEF Init
    <2>2. freeCount = [c \in Chain |-> freeCount[c]]
        BY ConstantsAssumption DEF Init
    <2> QED
        BY <2>1, <2>2 DEF Init, TypeSemaphores
<1>3. TypeChains
    BY DEF Init, TypeChains
<1>4. TypeThreads
    BY Sizes DEF Init, TypeThreads, AppPlaces, FlipPlaces, Images
<1>5. ShapeOK
    BY DEF Init, ShapeOK
<1>6. LinksOK
    BY DEF Init, LinksOK, LinkOK, Current
<1> QED
    BY <1>1, <1>2, <1>3, <1>4, <1>5, <1>6 DEF TInv, TypeOK

\* A step of chain c or of the queue.
ChainStep(c) == AppCall(c) \/ AppStep(c) \/ FlipStep(c) \/ Signal(c)

\* Which steps change what.
LEMMA Changes ==
    ASSUME NEW c \in Chain, ChainStep(c)
    PROVE  /\ \/ UNCHANGED <<imageVars, held>>
              \/ Create(c) \/ Deprecate(c) \/ AcquireScan(c) \/ Submit(c) \/ Mark(c) \/
                 Free(c) \/ FlipLook(c) \/ FlipShow(c) \/ FlipRelease(c) \/ Signal(c)
           /\ \/ UNCHANGED ringVars
              \/ Enqueue(c) \/ FlipTake(c) \/ Free(c)
           /\ \/ UNCHANGED flipSem
              \/ PostFlip(c) \/ FlipTake(c) \/ Free(c)
           /\ \/ UNCHANGED startSem
              \/ StartWait(c) \/ FlipBegin(c) \/ Free(c)
           /\ \/ UNCHANGED freeCount
              \/ AcquireTake(c) \/ DrainTake(c) \/ FlipDrain(c) \/ FlipPost(c) \/ Free(c)
           /\ \/ UNCHANGED wait
              \/ AcquireTake(c) \/ AcquireSleep(c) \/ AcquireNothing(c) \/ DrainTake(c) \/
                 DrainSleep(c) \/ FlipDrain(c) \/ FlipDrainSleep(c) \/ FlipPost(c) \/
                 Free(c)
           /\ \/ UNCHANGED flagVars
              \/ Create(c) \/ FlipFails(c) \/ FlipBegin(c) \/ Free(c)
           /\ \/ UNCHANGED linkVars
              \/ Create(c) \/ Deprecated(c) \/ Free(c)
           /\ \/ UNCHANGED flip
              \/ Create(c) \/ Free(c) \/ FlipTake(c) \/ FlipFence(c) \/ FlipFails(c) \/
                 FlipLook(c) \/ FlipFirst(c) \/ FlipBegin(c) \/ FlipShow(c) \/
                 FlipRelease(c) \/ FlipPost(c)
<1>1. \/ UNCHANGED <<imageVars, held>>
     \/ Create(c) \/ Deprecate(c) \/ AcquireScan(c) \/ Submit(c) \/ Mark(c) \/ Free(c) \/
        FlipLook(c) \/ FlipShow(c) \/ FlipRelease(c) \/ Signal(c)
    BY DEF ChainStep, AppCall, AppStep, FlipStep, Acquire, Present, Destroy, Deprecated,
        AcquireTake, AcquireSleep, AcquireNothing, AcquireCheck, AcquireLost, Look,
        Looked, SubmitFails, Enqueue, PostFlip, StartWait, DrainCount, DrainTake,
        DrainSleep, DrainDone, FlipTake, FlipFence, FlipFails, FlipFirst, FlipDrain,
        FlipDrainSleep, FlipBegin, FlipPost, Sleep
<1>2. \/ UNCHANGED ringVars
     \/ Enqueue(c) \/ FlipTake(c) \/ Free(c)
    BY DEF ChainStep, AppCall, AppStep, FlipStep, Create, Acquire, Present, Destroy, Deprecate,
        Deprecated, AcquireTake, AcquireSleep, AcquireNothing, AcquireCheck,
        AcquireScan, AcquireLost, Look, Looked, Submit, SubmitFails, Mark, PostFlip,
        StartWait, DrainCount, DrainTake, DrainSleep, DrainDone, FlipFence, FlipFails,
        FlipLook, FlipFirst, FlipDrain, FlipDrainSleep, FlipBegin, FlipShow,
        FlipRelease, FlipPost, Signal, Sleep
<1>3. \/ UNCHANGED flipSem
     \/ PostFlip(c) \/ FlipTake(c) \/ Free(c)
    BY DEF ChainStep, AppCall, AppStep, FlipStep, Create, Acquire, Present, Destroy, Deprecate,
        Deprecated, AcquireTake, AcquireSleep, AcquireNothing, AcquireCheck,
        AcquireScan, AcquireLost, Look, Looked, Submit, SubmitFails, Mark, Enqueue,
        StartWait, DrainCount, DrainTake, DrainSleep, DrainDone, FlipFence, FlipFails,
        FlipLook, FlipFirst, FlipDrain, FlipDrainSleep, FlipBegin, FlipShow,
        FlipRelease, FlipPost, Signal, Sleep
<1>4. \/ UNCHANGED startSem
     \/ StartWait(c) \/ FlipBegin(c) \/ Free(c)
    BY DEF ChainStep, AppCall, AppStep, FlipStep, Create, Acquire, Present, Destroy, Deprecate,
        Deprecated, AcquireTake, AcquireSleep, AcquireNothing, AcquireCheck,
        AcquireScan, AcquireLost, Look, Looked, Submit, SubmitFails, Mark, Enqueue,
        PostFlip, DrainCount, DrainTake, DrainSleep, DrainDone, FlipTake, FlipFence,
        FlipFails, FlipLook, FlipFirst, FlipDrain, FlipDrainSleep, FlipShow,
        FlipRelease, FlipPost, Signal, Sleep
<1>5. \/ UNCHANGED freeCount
     \/ AcquireTake(c) \/ DrainTake(c) \/ FlipDrain(c) \/ FlipPost(c) \/ Free(c)
    BY DEF ChainStep, AppCall, AppStep, FlipStep, Create, Acquire, Present, Destroy, Deprecate,
        Deprecated, AcquireSleep, AcquireNothing, AcquireCheck, AcquireScan,
        AcquireLost, Look, Looked, Submit, SubmitFails, Mark, Enqueue, PostFlip,
        StartWait, DrainCount, DrainSleep, DrainDone, FlipTake, FlipFence, FlipFails,
        FlipLook, FlipFirst, FlipDrainSleep, FlipBegin, FlipShow, FlipRelease, Signal,
        Sleep
<1>6. \/ UNCHANGED wait
     \/ AcquireTake(c) \/ AcquireSleep(c) \/ AcquireNothing(c) \/ DrainTake(c) \/
        DrainSleep(c) \/ FlipDrain(c) \/ FlipDrainSleep(c) \/ FlipPost(c) \/ Free(c)
    BY DEF ChainStep, AppCall, AppStep, FlipStep, Create, Acquire, Present, Destroy, Deprecate,
        Deprecated, AcquireCheck, AcquireScan, AcquireLost, Look, Looked, Submit,
        SubmitFails, Mark, Enqueue, PostFlip, StartWait, DrainCount, DrainDone,
        FlipTake, FlipFence, FlipFails, FlipLook, FlipFirst, FlipBegin, FlipShow,
        FlipRelease, Signal, Sleep
<1>7. \/ UNCHANGED flagVars
     \/ Create(c) \/ FlipFails(c) \/ FlipBegin(c) \/ Free(c)
    BY DEF ChainStep, AppCall, AppStep, FlipStep, Acquire, Present, Destroy, Deprecate,
        Deprecated, AcquireTake, AcquireSleep, AcquireNothing, AcquireCheck,
        AcquireScan, AcquireLost, Look, Looked, Submit, SubmitFails, Mark, Enqueue,
        PostFlip, StartWait, DrainCount, DrainTake, DrainSleep, DrainDone, FlipTake,
        FlipFence, FlipLook, FlipFirst, FlipDrain, FlipDrainSleep, FlipShow,
        FlipRelease, FlipPost, Signal, Sleep
<1>8. \/ UNCHANGED linkVars
     \/ Create(c) \/ Deprecated(c) \/ Free(c)
    BY DEF ChainStep, AppCall, AppStep, FlipStep, Acquire, Present, Destroy, Deprecate,
        AcquireTake, AcquireSleep, AcquireNothing, AcquireCheck, AcquireScan,
        AcquireLost, Look, Looked, Submit, SubmitFails, Mark, Enqueue, PostFlip,
        StartWait, DrainCount, DrainTake, DrainSleep, DrainDone, FlipTake, FlipFence,
        FlipFails, FlipLook, FlipFirst, FlipDrain, FlipDrainSleep, FlipBegin, FlipShow,
        FlipRelease, FlipPost, Signal, Sleep
<1>9. \/ UNCHANGED flip
     \/ Create(c) \/ Free(c) \/ FlipTake(c) \/ FlipFence(c) \/ FlipFails(c) \/ FlipLook(c)
        \/ FlipFirst(c) \/ FlipBegin(c) \/ FlipShow(c) \/ FlipRelease(c) \/ FlipPost(c)
    BY DEF ChainStep, AppCall, AppStep, FlipStep, Acquire, Present, Destroy, Deprecate,
        Deprecated, AcquireTake, AcquireSleep, AcquireNothing, AcquireCheck,
        AcquireScan, AcquireLost, Look, Looked, Submit, SubmitFails, Mark, Enqueue,
        PostFlip, StartWait, DrainCount, DrainTake, DrainSleep, DrainDone, FlipDrain,
        FlipDrainSleep, Signal, Sleep
<1> QED
    BY <1>1, <1>2, <1>3, <1>4, <1>5, <1>6, <1>7, <1>8, <1>9

\* The statuses, the fences and the images of the application.
LEMMA ImagesKept ==
    ASSUME TInv, NEW c \in Chain, ChainStep(c)
    PROVE  TypeImages'
<1> USE DEF TInv, TypeOK, TypeThreads
<1>1. CASE UNCHANGED <<imageVars, held>>
    BY <1>1 DEF TypeImages, Images
<1>2. ASSUME NEW d \in Chain, NEW i \in Images(d),
             NEW v \in {"INVALID", "ACQUIRED", "PENDING", "FREE"}, SetStatus(d, i, v)
      PROVE  status'[d] \in [Images(d) -> {"INVALID", "ACQUIRED", "PENDING", "FREE"}]
             /\ \A e \in Chain : e # d => status'[e] = status[e]
    BY <1>2, StatusChange DEF SetStatus, TypeImages
<1>3. ASSUME NEW d \in Chain, NEW i \in Images(d), NEW v \in {"unused", "submitted", "signalled"},
             fence' = [fence EXCEPT ![d][i] = v]
      PROVE  fence'[d] \in [Images(d) -> {"unused", "submitted", "signalled"}]
             /\ \A e \in Chain : e # d => fence'[e] = fence[e]
    BY <1>3, FenceChange DEF TypeImages
<1>4. ASSUME NEW d \in Chain, NEW i \in Images(d), Release(d, i), UNCHANGED held
      PROVE  TypeImages'
    BY <1>2, <1>3, <1>4 DEF Release, TypeImages, Images
<1>5. k[c] < ImageCount[c] => k[c] \in Images(c)
    BY Sizes DEF Images
<1>6. CASE Create(c)
    BY <1>6 DEF Create, TypeImages, Set, Images, ShapeOK
<1>7. CASE Deprecate(c)
    <2>1. c - 1 \in Chain /\ k[c] \in Images(c - 1)
        BY <1>7, Sizes DEF Deprecate, LinksOK, LinkOK, Images
    <2> QED
        BY <1>1, <1>4, <1>7, <2>1 DEF Deprecate
<1>8. CASE AcquireScan(c)
    <2>1. held'[c] \subseteq Images(c) /\ \A e \in Chain : e # c => held'[e] = held[e]
        <3>1. k[c] \in Images(c) /\ (held' = held \/ held' = [held EXCEPT ![c] = @ \union {k[c]}])
            BY <1>5, <1>8 DEF AcquireScan
        <3>2. held = [d \in Chain |-> held[d]] /\ held[c] \subseteq Images(c)
            BY DEF ShapeOK, TypeImages
        <3>3. CASE held' = [held EXCEPT ![c] = @ \union {k[c]}]
            BY <3>1, <3>2, <3>3
        <3> QED
            BY <3>1, <3>2, <3>3
    <2>2. \A d \in Chain : status'[d] \in [Images(d) -> {"INVALID", "ACQUIRED", "PENDING", "FREE"}]
        BY <1>2, <1>5, <1>8 DEF AcquireScan, TypeImages
    <2> QED
        BY <1>8, <2>1, <2>2 DEF AcquireScan, TypeImages, Images
<1>9. CASE Submit(c)
    BY <1>1, <1>3, <1>9 DEF Submit, TypeImages, Images
<1>10. CASE Mark(c)
    <2>1. held'[c] \subseteq Images(c) /\ \A e \in Chain : e # c => held'[e] = held[e]
        BY <1>10 DEF Mark, ShapeOK, TypeImages
    <2>2. \A d \in Chain : status'[d] \in [Images(d) -> {"INVALID", "ACQUIRED", "PENDING", "FREE"}]
        BY <1>2, <1>10 DEF Mark, TypeImages
    <2> QED
        BY <1>10, <2>1, <2>2 DEF Mark, TypeImages, Images
<1>11. CASE Free(c)
    BY <1>11 DEF Free, TypeImages, Set, Images, ShapeOK
<1>12. CASE FlipLook(c)
    BY <1>1, <1>4, <1>12 DEF FlipLook
<1>13. CASE FlipShow(c)
    BY <1>2, <1>13 DEF FlipShow, TypeImages, Images
<1>14. CASE FlipRelease(c)
    BY <1>1, <1>4, <1>14 DEF FlipRelease
<1>15. CASE Signal(c)
    BY <1>3, <1>15 DEF Signal, TypeImages, Images
<1> QED
    BY <1>1, <1>6, <1>7, <1>8, <1>9, <1>10, <1>11, <1>12, <1>13, <1>14, <1>15, Changes

\* The ring.
LEMMA RingKept ==
    ASSUME TInv, NEW c \in Chain, ChainStep(c)
    PROVE  TypeRing'
<1> USE DEF TInv, TypeOK, TypeThreads, ShapeOK, TypeRing, Images
<1>1. CASE UNCHANGED ringVars
    BY <1>1
<1>2. ASSUME NEW i \in Int PROVE i % ImageCount[c] \in Images(c)
    BY <1>2, Sizes, Remainder
<1>3. CASE Enqueue(c)
    <2>1. ring'[c] = [ring[c] EXCEPT ![tail[c]] = img[c]] /\ \A d \in Chain : d # c => ring'[d] = ring[d]
        BY <1>3 DEF Enqueue
    <2>2. tail'[c] \in Images(c) /\ \A d \in Chain : d # c => tail'[d] = tail[d]
        BY <1>2, <1>3, Sizes DEF Enqueue, Set
    <2> QED
        BY <1>3, <2>1, <2>2 DEF Enqueue
<1>4. CASE FlipTake(c)
    <2>1. head'[c] \in Images(c) /\ \A d \in Chain : d # c => head'[d] = head[d]
        BY <1>2, <1>4, Sizes DEF FlipTake, Set
    <2> QED
        BY <1>4, <2>1 DEF FlipTake
<1>5. CASE Free(c)
    BY <1>5, Sizes DEF Free, Set
<1> QED
    BY <1>1, <1>3, <1>4, <1>5, Changes

\* The semaphores.
LEMMA SemaphoresKept ==
    ASSUME TInv, NEW c \in Chain, ChainStep(c)
    PROVE  TypeSemaphores'
<1> USE DEF TInv, TypeOK, TypeSemaphores, Thread, App, Flip
<1>1. flipSem' \in [Chain -> Nat]
    <2>1. UNCHANGED flipSem \/ PostFlip(c) \/ FlipTake(c) \/ Free(c)
        BY Changes
    <2> QED
        BY <2>1 DEF PostFlip, FlipTake, Free, Set
<1>2. startSem' \in [Chain -> Nat]
    <2>1. CASE StartWait(c)
        <3>1. c + 1 \in Chain
            BY <2>1 DEF StartWait, LinksOK, LinkOK, Current
        <3> QED
            BY <2>1, <3>1 DEF StartWait, Set
    <2>2. UNCHANGED startSem \/ StartWait(c) \/ FlipBegin(c) \/ Free(c)
        BY Changes
    <2> QED
        BY <2>1, <2>2 DEF FlipBegin, Free, Set
<1>3. ASSUME NEW t \in Thread, NEW d \in Chain, SemOf(t) = d, Take(t)
      PROVE  freeCount' \in [Chain -> 0 .. CountModulus - 1]
    BY <1>3, CountRange DEF Take
<1>4. ASSUME NEW t \in Thread, Take(t) \/ Sleep(t)
      PROVE  wait' \in [Thread -> {"awake", "asleep", "woken"}]
    BY <1>4 DEF Take, Sleep, Set
<1>5. App(c) \in Thread /\ Flip(c) \in Thread /\ SemOf(App(c)) = c /\ SemOf(Flip(c)) = c - 1
    BY DEF SemOf
<1>6. freeCount' \in [Chain -> 0 .. CountModulus - 1]
    <2>1. CASE AcquireTake(c) \/ DrainTake(c)
        BY <1>3, <1>5, <2>1 DEF AcquireTake, DrainTake
    <2>2. CASE FlipDrain(c)
        BY <1>3, <1>5, <2>2 DEF FlipDrain, LinksOK, LinkOK
    <2>3. CASE FlipPost(c)
        BY <2>3, CountRange DEF FlipPost, Post
    <2>4. CASE Free(c)
        BY <2>4, Sizes DEF Free, Set
    <2> QED
        BY <2>1, <2>2, <2>3, <2>4, Changes
<1>7. wait' \in [Thread -> {"awake", "asleep", "woken"}]
    <2>1. CASE AcquireTake(c) \/ DrainTake(c) \/ AcquireSleep(c) \/ DrainSleep(c)
        BY <1>4, <1>5, <2>1 DEF AcquireTake, DrainTake, AcquireSleep, DrainSleep
    <2>2. CASE FlipDrain(c) \/ FlipDrainSleep(c)
        BY <1>4, <1>5, <2>2 DEF FlipDrain, FlipDrainSleep
    <2>3. CASE FlipPost(c)
        BY <2>3 DEF FlipPost, Post, Set
    <2>4. CASE Free(c) \/ AcquireNothing(c)
        BY <1>5, <2>4 DEF Free, AcquireNothing, Set
    <2> QED
        BY <2>1, <2>2, <2>3, <2>4, Changes
<1> QED
    BY <1>1, <1>2, <1>6, <1>7

\* Validity, the first image, ancestors and descendants.
LEMMA ChainsKept ==
    ASSUME TInv, NEW c \in Chain, ChainStep(c)
    PROVE  TypeChains'
<1> USE DEF TInv, TypeOK, TypeChains
<1>1. CASE UNCHANGED <<flagVars, linkVars>>
    BY <1>1
<1>2. CASE Create(c)
    <2>1. \/ ancestor' = [ancestor EXCEPT ![c] = c - 1] /\ c - 1 \in Chain
          \/ ancestor' = [ancestor EXCEPT ![c] = NoChain]
        <3>1. (c > 1 /\ app[c - 1] = "idle") => c - 1 \in Chain
            BY Sizes
        <3> QED
            BY <1>2, <3>1 DEF Create, Set
    <2> QED
        BY <1>2, <2>1 DEF Create, Set
<1>3. CASE Deprecated(c)
    BY <1>3 DEF Deprecated, Set
<1>4. CASE Free(c)
    BY <1>4 DEF Free, Set
<1>5. CASE FlipFails(c) \/ FlipBegin(c)
    BY <1>5 DEF FlipFails, FlipBegin, Set
<1> QED
    BY <1>1, <1>2, <1>3, <1>4, <1>5, Changes

\* The places and the locals of the threads.
LEMMA ThreadsKept ==
    ASSUME TInv, NEW c \in Chain, ChainStep(c)
    PROVE  TypeThreads'
<1> USE DEF TInv, TypeOK, TypeThreads, GoApp, GoFlip, Set, Return, Images
<1> USE DEF ChainStep, AppCall, AppStep, FlipStep, Signal, Create, Acquire, Present, Destroy, Deprecate,
        Deprecated, AcquireTake, AcquireSleep, AcquireNothing, AcquireCheck, AcquireScan,
        AcquireLost, Look, Looked, Submit, SubmitFails, Mark, Enqueue, PostFlip, StartWait,
        DrainCount, DrainTake, DrainSleep, DrainDone, Free, Sleep, FlipTake, FlipFence, FlipFails,
        FlipLook, FlipFirst, FlipDrain, FlipDrainSleep, FlipBegin, FlipShow, FlipRelease, FlipPost
<1>1. app' \in [Chain -> AppPlaces]
    BY DEF AppPlaces
<1>2. flip' \in [Chain -> FlipPlaces]
    BY DEF FlipPlaces
<1>3. timeout' \in [Chain -> {"zero", "finite", "infinite"}]
    OBVIOUS
<1>4. \A d \in Chain : img'[d] \in Images(d)
    <2>1. \/ UNCHANGED img \/ img' = [img EXCEPT ![c] = 0]
          \/ \E i \in held[c] : img' = [img EXCEPT ![c] = i]
        OBVIOUS
    <2> QED
        <3>1. img = [d \in Chain |-> img[d]] /\ held[c] \subseteq Images(c)
            BY DEF ShapeOK, TypeImages
        <3>2. CASE \E i \in held[c] : img' = [img EXCEPT ![c] = i]
            BY <3>1, <3>2
        <3>3. CASE img' = [img EXCEPT ![c] = 0]
            BY <3>1, <3>3, Sizes
        <3> QED
            BY <2>1, <3>2, <3>3
<1>5. \A d \in Chain : hand'[d] \in Images(d)
    <2>1. \/ UNCHANGED hand \/ hand' = [hand EXCEPT ![c] = 0]
          \/ hand' = [hand EXCEPT ![c] = ring[c][head[c]]]
        OBVIOUS
    <2>2. ring[c][head[c]] \in Images(c)
        BY DEF TypeRing
    <2> QED
        BY <2>1, <2>2, Sizes DEF ShapeOK
<1>6. k' \in [Chain -> Nat]
    <2>1. UNCHANGED k \/ k' = [k EXCEPT ![c] = 0] \/ k' = [k EXCEPT ![c] = k[c] + 1]
        OBVIOUS
    <2> QED
        BY <2>1
<1>7. started' \in [Chain -> BOOLEAN]
    OBVIOUS
<1>8. left' \in [Thread -> Int]
    <2>3. ToDrain(c) \in Int /\ App(c) \in Thread /\ Flip(c) \in Thread
        BY ToDrainInt DEF Thread, App, Flip
    <2>1. CASE FlipFirst(c)
        <3>1. ToDrain(ancestor[c]) \in Int \/ ancestor[c] = NoChain
            BY ToDrainInt DEF TypeChains
        <3> QED
            BY <2>1, <3>1 DEF Thread, Flip
    <2>2. CASE DrainCount(c)
        BY <2>2, <2>3
    <2>4. CASE DrainTake(c)
        BY <2>3, <2>4
    <2>5. CASE FlipDrain(c)
        BY <2>3, <2>5
    <2>6. CASE Free(c)
        BY <2>3, <2>6
    <2> QED
        BY <2>1, <2>2, <2>4, <2>5, <2>6
<1> QED
    BY <1>1, <1>2, <1>3, <1>4, <1>5, <1>6, <1>7, <1>8

\* The variables remain functions of the chains.
LEMMA ShapeKept == ASSUME TInv, NEW c \in Chain, ChainStep(c) PROVE ShapeOK'
<1> USE DEF GoApp, GoFlip, Set, Return, Release, SetStatus
<1> USE DEF ChainStep, AppCall, AppStep, FlipStep, Signal, Create, Acquire, Present, Destroy, Deprecate,
        Deprecated, AcquireTake, AcquireSleep, AcquireNothing, AcquireCheck, AcquireScan,
        AcquireLost, Look, Looked, Submit, SubmitFails, Mark, Enqueue, PostFlip, StartWait,
        DrainCount, DrainTake, DrainSleep, DrainDone, Free, Sleep, FlipTake, FlipFence, FlipFails,
        FlipLook, FlipFirst, FlipDrain, FlipDrainSleep, FlipBegin, FlipShow, FlipRelease, FlipPost
<1>1. ShapeOK
    BY DEF TInv
<1>2. status' = [d \in Chain |-> status'[d]]
    BY <1>1 DEF ShapeOK
<1>3. fence' = [d \in Chain |-> fence'[d]]
    BY <1>1 DEF ShapeOK
<1>4. held' = [d \in Chain |-> held'[d]]
    BY <1>1 DEF ShapeOK
<1>5. ring' = [d \in Chain |-> ring'[d]]
    BY <1>1 DEF ShapeOK
<1>6. head' = [d \in Chain |-> head'[d]] /\ tail' = [d \in Chain |-> tail'[d]]
    BY <1>1 DEF ShapeOK
<1>7. img' = [d \in Chain |-> img'[d]] /\ hand' = [d \in Chain |-> hand'[d]]
    BY <1>1 DEF ShapeOK
<1> QED
    BY <1>2, <1>3, <1>4, <1>5, <1>6, <1>7 DEF ShapeOK

\* A step of chain c leaves the places of the others alone.
LEMMA Places ==
    ASSUME TInv, NEW c \in Chain, ChainStep(c)
    PROVE  /\ \A d \in Chain : d # c => app'[d] = app[d] /\ started'[d] = started[d] /\ flip'[d] = flip[d]
           /\ app'[c] # "none" \/ app[c] = "none"
           /\ app'[c] = "deprecate" => Create(c) \/ app[c] = "deprecate"
           /\ app[c] = "none" => Create(c) \/ (app'[c] = "none" /\ ~AppCall(c) /\ ~AppStep(c))
<1>1. app \in [Chain -> AppPlaces] /\ started \in [Chain -> BOOLEAN] /\ flip \in [Chain -> FlipPlaces]
    BY DEF TInv, TypeOK, TypeThreads
<1> USE DEF GoApp, GoFlip, Set, Return, ChainStep, AppCall, AppStep, FlipStep, Signal, Create, Acquire,
        Present, Destroy, Deprecate, Unused,
        Deprecated, AcquireTake, AcquireSleep, AcquireNothing, AcquireCheck, AcquireScan,
        AcquireLost, Look, Looked, Submit, SubmitFails, Mark, Enqueue, PostFlip, StartWait,
        DrainCount, DrainTake, DrainSleep, DrainDone, Free, Sleep, FlipTake, FlipFence, FlipFails,
        FlipLook, FlipFirst, FlipDrain, FlipDrainSleep, FlipBegin, FlipShow, FlipRelease, FlipPost
<1>2. \A d \in Chain : d # c => app'[d] = app[d] /\ started'[d] = started[d] /\ flip'[d] = flip[d]
    BY <1>1
<1>3. app'[c] # "none" \/ app[c] = "none"
    BY <1>1
<1>4. app'[c] = "deprecate" => Create(c) \/ app[c] = "deprecate"
    BY <1>1
<1>5. app[c] = "none" => Create(c) \/ (app'[c] = "none" /\ ~AppCall(c) /\ ~AppStep(c))
    BY <1>1
<1> QED
    BY <1>2, <1>3, <1>4, <1>5

\* A chain that has a descendant, or has had one, remains so.
LEMMA CurrentKept ==
    ASSUME TInv, NEW c \in Chain, ChainStep(c), NEW d \in Chain, ~Current(d)
    PROVE  ~Current(d)'
<1>1. d + 1 \in Chain /\ app[d + 1] \notin {"none", "deprecate"}
    BY DEF Current
<1>2. app'[d + 1] \notin {"none", "deprecate"}
    BY <1>1, Places DEF Create
<1> QED
    BY <1>1, <1>2 DEF Current

\* Ancestors, descendants and the places where they matter.
LEMMA LinksKept == ASSUME TInv, NEW c \in Chain, ChainStep(c) PROVE LinksOK'
<1>1. TypeThreads /\ TypeChains /\ LinksOK
    BY DEF TInv, TypeOK
<1>0. UNCHANGED linkVars \/ Create(c) \/ Deprecated(c) \/ Free(c)
    BY Changes
<1>2. \A d \in Chain : ~Current(d) => ~Current(d)'
    BY CurrentKept
<1>3. ASSUME NEW d \in Chain, ancestor'[d] # ancestor[d]
      PROVE  \/ ancestor'[d] = NoChain
             \/ Create(c) /\ d = c /\ ancestor'[d] = c - 1
    BY <1>0, <1>1, <1>3 DEF TypeChains, Set, Create, Deprecated, Free
<1>4. ASSUME NEW d \in Chain, descendant'[d] # descendant[d]
      PROVE  \/ descendant'[d] = NoChain
             \/ Deprecated(c) /\ d = c - 1 /\ descendant'[d] = c
    BY <1>0, <1>1, <1>4 DEF TypeChains, Set, Create, Deprecated, Free
<1>5. app'[c] = "deprecate" => ancestor'[c] = c - 1 /\ c - 1 \in Chain
    <2>1. CASE Create(c)
        BY <1>1, <2>1, Sizes DEF Create, GoApp, Set, TypeThreads, TypeChains
    <2>2. CASE Free(c) \/ Deprecated(c)
        BY <1>1, <2>2 DEF Free, Deprecated, Return, GoApp, Set, TypeThreads
    <2>3. CASE UNCHANGED linkVars /\ ~Create(c)
        BY <1>1, <2>3, Places DEF LinksOK, LinkOK
    <2> QED
        BY <2>1, <2>2, <2>3, Changes
<1>6. \A d \in Chain : d # c /\ app'[d] = "deprecate" => ancestor'[d] = d - 1 /\ d - 1 \in Chain
    <2> SUFFICES ASSUME NEW d \in Chain, d # c, app'[d] = "deprecate"
                 PROVE  ancestor'[d] = d - 1 /\ d - 1 \in Chain
        OBVIOUS
    <2>1. app[d] = "deprecate" /\ ancestor[d] = d - 1 /\ d - 1 \in Chain
        BY <1>1, Places DEF LinksOK, LinkOK
    <2>2. ~(Free(c) /\ d = descendant[c])
        BY <1>1, <2>1 DEF LinksOK, LinkOK, Current
    <2>3. ancestor'[d] = ancestor[d]
        BY <1>0, <1>1, <2>1, <2>2 DEF TypeChains, Set, Create, Deprecated, Free
    <2> QED
        BY <2>1, <2>3
<1>7. \A d \in Chain : descendant'[d] # NoChain => ~Current(d)'
    <2> SUFFICES ASSUME NEW d \in Chain, descendant'[d] # NoChain PROVE ~Current(d)'
        OBVIOUS
    <2>1. CASE descendant[d] # NoChain
        BY <1>1, <1>2, <2>1 DEF LinksOK, LinkOK
    <2>2. CASE Deprecated(c) /\ d = c - 1
        BY <1>1, <2>2 DEF Deprecated, Return, GoApp, Set, Current, TypeThreads
    <2> QED
        BY <1>4, <2>1, <2>2
<1>8. app'[c] \in {"presentLook", "tearLook", "startWait"} \/ started'[c] => ~Current(c)
    BY <1>1 DEF TypeThreads, LinksOK, LinkOK, GoApp, Return, Set, ChainStep, AppCall, AppStep, FlipStep,
        Signal, Create, Acquire, Present, Destroy, Deprecate,
        Deprecated, AcquireTake, AcquireSleep, AcquireNothing, AcquireCheck, AcquireScan,
        AcquireLost, Look, Looked, Submit, SubmitFails, Mark, Enqueue, PostFlip, StartWait,
        DrainCount, DrainTake, DrainSleep, DrainDone, Free, Sleep, FlipTake, FlipFence, FlipFails,
        FlipLook, FlipFirst, FlipDrain, FlipDrainSleep, FlipBegin, FlipShow, FlipRelease, FlipPost
<1>9. flip'[c] = "drain" => c - 1 \in Chain
    <2>1. CASE FlipFirst(c)
        BY <1>1, <2>1 DEF FlipFirst, GoFlip, Set, TypeThreads, TypeChains, LinksOK, LinkOK
    <2>2. CASE UNCHANGED flip
        BY <1>1, <2>2 DEF LinksOK, LinkOK
    <2> QED
        BY <1>1, <2>1, <2>2, Changes
        DEF TypeThreads, GoFlip, Set, Create, Free, FlipTake, FlipFence, FlipFails, FlipLook, FlipBegin,
            FlipShow, FlipRelease, FlipPost
<1>10. \A d \in Chain : d + 1 \in Chain /\ app'[d] = "none" => app'[d + 1] = "none"
    <2> SUFFICES ASSUME NEW d \in Chain, d + 1 \in Chain, app'[d] = "none" PROVE app'[d + 1] = "none"
        OBVIOUS
    <2>1. app[d] = "none" /\ app[d + 1] = "none"
        BY <1>1, Places DEF LinksOK, LinkOK
    <2>2. ASSUME Create(c), c = d + 1 PROVE FALSE
        <3>1. c > 1 /\ c - 1 = d
            BY <2>2
        <3> QED
            BY <2>1, <2>2, <3>1 DEF Create
    <2> QED
        BY <2>1, <2>2, Places
<1>11. \A d \in Chain : ancestor'[d] \in {NoChain, d - 1} /\ descendant'[d] \in {NoChain, d + 1}
    BY <1>1, <1>3, <1>4 DEF LinksOK, LinkOK
<1>12. \A d \in Chain : app'[d] \in {"presentLook", "tearLook", "startWait"} \/ started'[d] => ~Current(d)'
    BY <1>1, <1>2, <1>8, Places DEF LinksOK, LinkOK
<1>13. \A d \in Chain : flip'[d] = "drain" => d - 1 \in Chain
    BY <1>1, <1>9, Places DEF LinksOK, LinkOK
<1> QED
    BY <1>5, <1>6, <1>7, <1>10, <1>11, <1>12, <1>13 DEF LinksOK, LinkOK

\* A step of the swapchains is one of a chain, a wakeup, or none.
LEMMA Steps ==
    ASSUME [Next]_vars
    PROVE  \/ \E c \in Chain : ChainStep(c)
           \/ \E t \in Thread : SpuriousWakeup(t)
           \/ UNCHANGED vars
BY DEF Next, Terminated, ChainStep

\* Every step keeps the types and shapes.
LEMMA TNext == ASSUME TInv, [Next]_vars PROVE TInv'
<1>1. ASSUME NEW c \in Chain, ChainStep(c) PROVE TInv'
    BY <1>1, ImagesKept, RingKept, SemaphoresKept, ChainsKept, ThreadsKept, ShapeKept, LinksKept
    DEF TInv, TypeOK
<1>2. ASSUME NEW t \in Thread, SpuriousWakeup(t) PROVE TInv'
    <2>1. TypeSemaphores'
        BY <1>2 DEF TInv, TypeOK, TypeSemaphores, SpuriousWakeup, Set
    <2> QED
        BY <1>2, <2>1 DEF SpuriousWakeup, TInv, TypeOK, TypeImages, TypeRing, TypeChains,
            TypeThreads, ShapeOK, LinksOK, LinkOK, Current
<1>3. CASE UNCHANGED vars
    BY <1>3 DEF TInv, TypeOK, TypeImages, TypeRing, TypeSemaphores, TypeChains, TypeThreads,
        ShapeOK, LinksOK, LinkOK, Current
<1> QED
    BY <1>1, <1>2, <1>3, Steps

\* The variables have their types, whatever the application, the condition variable
\* and the device do.
THEOREM TypeCorrect == Spec => []TypeOK
<1>1. Init => TInv
    BY TInit
<1>2. TInv /\ [Next]_vars => TInv'
    BY TNext
<1>3. TInv => TypeOK
    BY DEF TInv
<1> QED
    BY <1>1, <1>2, <1>3, PTL DEF Spec

-----------------------------------------------------------------------------
(* The ring.                                                               *)

\* Nothing has no remainder.
LEMMA NoRemainder == ASSUME NEW n \in Nat \ {0} PROVE (0 + 0) % n = 0
<1>1. ASSUME NEW i \in Nat, i < n PROVE i % n = i
    BY <1>1
<1> QED
    BY <1>1

\* A step round a ring of n places.
LEMMA Around ==
    ASSUME NEW n \in Nat \ {0}, NEW a \in 0 .. n - 1, NEW b \in 0 .. n
    PROVE  (a + b) % n = IF a + b < n THEN a + b ELSE a + b - n
<1>1. ASSUME NEW i \in Nat, i < n PROVE i % n = i /\ (i + n) % n = i
    BY <1>1
<1>2. CASE a + b < n
    BY <1>1, <1>2
<1>3. CASE a + b >= n
    <2>1. a + b - n \in Nat /\ a + b - n < n
        BY <1>3
    <2> QED
        BY <1>1, <1>3, <2>1
<1> QED
    BY <1>2, <1>3

\* Different members of a set of n are at most n.
LEMMA AtMost ==
    ASSUME NEW m \in Nat, NEW n \in Nat, NEW f \in [0 .. m - 1 -> 0 .. n - 1],
           \A i, j \in 0 .. m - 1 : i # j => f[i] # f[j]
    PROVE  m <= n
<1>1. f \in Injection(0 .. m - 1, 0 .. n - 1)
    BY DEF Injection, IsInjective
<1>2. IsFiniteSet(0 .. n - 1)
    BY FS_Interval
<1>3. Cardinality(0 .. m - 1) <= Cardinality(0 .. n - 1)
    BY <1>1, <1>2, FS_Injection
<1>4. Cardinality(0 .. m - 1) = m /\ Cardinality(0 .. n - 1) = n
    BY FS_Interval
<1> QED
    BY <1>3, <1>4

\* The entries of the ring are images, at places that are all different.
LEMMA Entry ==
    ASSUME TInv, NEW c \in Chain
    PROVE  /\ InRing(c) \in Nat
           /\ \A n \in Nat : (head[c] + n) % ImageCount[c] \in Images(c) /\ Slot(c, n) \in Images(c)
<1>1. head[c] \in Images(c) /\ ring[c] \in [Images(c) -> Images(c)] /\ flipSem[c] \in Nat
    BY DEF TInv, TypeOK, TypeRing, TypeSemaphores
<1>2. ASSUME NEW n \in Nat PROVE (head[c] + n) % ImageCount[c] \in Images(c)
    <2>1. head[c] + n \in Int /\ ImageCount[c] \in Nat \ {0}
        BY <1>1, Sizes DEF Images
    <2> QED
        BY <2>1, Remainder DEF Images
<1> QED
    BY <1>1, <1>2 DEF InRing, Slot

\* The ring has room for all images; while one is being entered it is not full.
LEMMA Room ==
    ASSUME TInv, NEW c \in Chain, RingOK(c), MovingOK(c)
    PROVE  InRing(c) <= ImageCount[c] /\ (app[c] = "enqueue" => InRing(c) < ImageCount[c])
<1> DEFINE m == InRing(c)
<1>1. ImageCount[c] \in Nat /\ img[c] \in 0 .. ImageCount[c] - 1
    BY Sizes DEF TInv, TypeOK, TypeThreads, Images
<1>2. m \in Nat /\ \A n \in Nat : Slot(c, n) \in 0 .. ImageCount[c] - 1
    BY Entry DEF Images
<1>3. /\ \A i, j \in 0 .. m - 1 : i # j => Slot(c, i) # Slot(c, j)
      /\ app[c] = "enqueue" => \A i \in 0 .. m - 1 : Slot(c, i) # img[c]
    BY DEF RingOK
<1> HIDE DEF m
<1>4. m <= ImageCount[c]
    <2> DEFINE f == [i \in 0 .. m - 1 |-> Slot(c, i)]
    <2>1. f \in [0 .. m - 1 -> 0 .. ImageCount[c] - 1]
        BY <1>2
    <2>2. \A i, j \in 0 .. m - 1 : i # j => f[i] # f[j]
        BY <1>3
    <2> HIDE DEF f
    <2> QED
        BY <1>1, <1>2, <2>1, <2>2, AtMost
<1>5. ASSUME app[c] = "enqueue" PROVE m + 1 <= ImageCount[c]
    <2> DEFINE f == [i \in 0 .. (m + 1) - 1 |-> IF i = m THEN img[c] ELSE Slot(c, i)]
    <2>1. f \in [0 .. (m + 1) - 1 -> 0 .. ImageCount[c] - 1]
        BY <1>1, <1>2
    <2>2. \A i, j \in 0 .. (m + 1) - 1 : i # j => f[i] # f[j]
        BY <1>2, <1>3, <1>5
    <2> HIDE DEF f
    <2>3. m + 1 \in Nat
        BY <1>2
    <2> QED
        BY <1>1, <2>1, <2>2, <2>3, AtMost
<1> QED
    BY <1>1, <1>2, <1>4, <1>5 DEF m

\* What the ring and its images depend on, when no image moves.
SameFlow(c) ==
    /\ status'[c] = status[c] /\ held'[c] = held[c]
    /\ ring'[c] = ring[c] /\ head'[c] = head[c] /\ tail'[c] = tail[c] /\ flipSem'[c] = flipSem[c]
    /\ flip'[c] = flip[c] /\ hand'[c] = hand[c] /\ first'[c] = first[c]
    /\ app'[c] = "post" <=> app[c] = "post"
    /\ app'[c] = "enqueue" => app[c] = "enqueue" /\ img'[c] = img[c]
    /\ ~Current(c) => ~Current(c)'

WayOK(c) == HeldOK(c) /\ RingOK(c) /\ MovingOK(c) /\ FirstOK(c)

\* A step that changes none of a swapchain's images and ring keeps them apart.
LEMMA SameWay ==
    ASSUME NEW c \in Chain, WayOK(c), SameFlow(c)
    PROVE  WayOK(c)'
<1>1. InRing(c)' = InRing(c) /\ \A n \in Nat : Slot(c, n)' = Slot(c, n)
    BY DEF SameFlow, InRing, Slot
<1>2. HasImage(c)' = HasImage(c)
    BY DEF SameFlow, HasImage
<1>3. Queued(c) \subseteq Queued(c)' /\ Acquired(c) \subseteq Acquired(c)'
    BY DEF SameFlow, Queued, Acquired
<1>4. \A i : InQueue(c, i) => InQueue(c, i)'
    BY <1>3 DEF SameFlow, InQueue
<1>5. HeldOK(c)'
    BY <1>3 DEF SameFlow, WayOK, HeldOK
<1>6. FirstOK(c)'
    BY DEF SameFlow, WayOK, FirstOK
<1>7. MovingOK(c)'
    BY <1>2, <1>4 DEF SameFlow, WayOK, MovingOK
<1>8. RingOK(c)'
    <2>1. \A n \in 0 .. InRing(c)' - 1 : n \in 0 .. InRing(c) - 1 /\ Slot(c, n)' = Slot(c, n)
        BY <1>1
    <2> QED
        BY <1>1, <1>2, <1>4, <2>1 DEF SameFlow, WayOK, RingOK
<1> QED
    BY <1>5, <1>6, <1>7, <1>8 DEF WayOK

\* A step of chain c leaves the ring and the images of the other chains alone, but
\* that deprecating releases the FREE images of the ancestor.
LEMMA Elsewhere ==
    ASSUME TInv, NEW c \in Chain, ChainStep(c), NEW d \in Chain, d # c
    PROVE  /\ held'[d] = held[d] /\ ring'[d] = ring[d] /\ head'[d] = head[d] /\ tail'[d] = tail[d]
           /\ flipSem'[d] = flipSem[d] /\ flip'[d] = flip[d] /\ hand'[d] = hand[d]
           /\ first'[d] = first[d] /\ app'[d] = app[d] /\ img'[d] = img[d]
           /\ k'[d] = k[d] /\ started'[d] = started[d]
           /\ status'[d] = status[d] \/ (Deprecate(c) /\ d = c - 1)
<1>1. TypeOK /\ ShapeOK
    BY DEF TInv
<1>2. status'[d] = status[d] \/ (Deprecate(c) /\ d = c - 1)
    <2>1. \/ UNCHANGED <<imageVars, held>>
          \/ Create(c) \/ Deprecate(c) \/ AcquireScan(c) \/ Submit(c) \/ Mark(c) \/ Free(c)
          \/ FlipLook(c) \/ FlipShow(c) \/ FlipRelease(c) \/ Signal(c)
        BY Changes
    <2> QED
        BY <1>1, <2>1 DEF Create, Deprecate, AcquireScan, Submit, Mark, Free, FlipLook, FlipShow,
            FlipRelease, Signal, SetStatus, Release, Set, ShapeOK
<1>3. held'[d] = held[d]
    <2>1. \/ UNCHANGED <<imageVars, held>>
          \/ Create(c) \/ Deprecate(c) \/ AcquireScan(c) \/ Submit(c) \/ Mark(c) \/ Free(c)
          \/ FlipLook(c) \/ FlipShow(c) \/ FlipRelease(c) \/ Signal(c)
        BY Changes
    <2> QED
        BY <1>1, <2>1 DEF Create, Deprecate, AcquireScan, Submit, Mark, Free, FlipLook, FlipShow,
            FlipRelease, Signal, Set, ShapeOK
<1>4. ring'[d] = ring[d] /\ head'[d] = head[d] /\ tail'[d] = tail[d]
    <2>1. UNCHANGED ringVars \/ Enqueue(c) \/ FlipTake(c) \/ Free(c)
        BY Changes
    <2> QED
        BY <1>1, <2>1 DEF Enqueue, FlipTake, Free, Set, ShapeOK
<1>5. flipSem'[d] = flipSem[d]
    <2>1. UNCHANGED flipSem \/ PostFlip(c) \/ FlipTake(c) \/ Free(c)
        BY Changes
    <2> QED
        BY <1>1, <2>1 DEF PostFlip, FlipTake, Free, Set, TypeOK, TypeSemaphores
<1>10. app'[d] = app[d] /\ started'[d] = started[d] /\ flip'[d] = flip[d]
    BY Places
<1>6. first'[d] = first[d]
    <2>1. UNCHANGED flagVars \/ Create(c) \/ FlipFails(c) \/ FlipBegin(c) \/ Free(c)
        BY Changes
    <2> QED
        BY <1>1, <2>1 DEF Create, FlipFails, FlipBegin, Free, Set, TypeOK, TypeChains
<1> USE DEF GoApp, GoFlip, Set, Return, ChainStep, AppCall, AppStep, FlipStep, Signal, Create, Acquire,
        Present, Destroy, Deprecate,
        Deprecated, AcquireTake, AcquireSleep, AcquireNothing, AcquireCheck, AcquireScan,
        AcquireLost, Look, Looked, Submit, SubmitFails, Mark, Enqueue, PostFlip, StartWait,
        DrainCount, DrainTake, DrainSleep, DrainDone, Free, Sleep, FlipTake, FlipFence, FlipFails,
        FlipLook, FlipFirst, FlipDrain, FlipDrainSleep, FlipBegin, FlipShow, FlipRelease, FlipPost
<1>7. hand'[d] = hand[d]
    BY <1>1 DEF ShapeOK
<1>8. img'[d] = img[d]
    BY <1>1 DEF ShapeOK
<1>9. k'[d] = k[d]
    BY <1>1 DEF TypeOK, TypeThreads
<1> QED
    BY <1>2, <1>3, <1>4, <1>5, <1>6, <1>7, <1>8, <1>9, <1>10

\* A step of one chain keeps the way of the images of the others.
LEMMA FlowElsewhere ==
    ASSUME TInv, FInv, NEW c \in Chain, ChainStep(c), NEW d \in Chain, d # c
    PROVE  FlowOK(d)'
<1>1. FlowOK(d)
    BY DEF FInv
<1>2. /\ app'[d] = app[d] /\ img'[d] = img[d] /\ flip'[d] = flip[d] /\ flipSem'[d] = flipSem[d]
      /\ held'[d] = held[d] /\ head'[d] = head[d] /\ tail'[d] = tail[d]
      /\ k'[d] = k[d] /\ started'[d] = started[d]
    BY Elsewhere
<1>3. app[d] \in {"acquire", "taken", "scan"} => (d + 1 \in Chain => app'[d + 1] = "none")
    <2> SUFFICES ASSUME app[d] \in {"acquire", "taken", "scan"}, d + 1 \in Chain
                 PROVE  app'[d + 1] = "none"
        OBVIOUS
    <2>1. app[d + 1] = "none"
        BY <1>1 DEF FlowOK, IdleOK
    <2>2. ASSUME c = d + 1, Create(c) PROVE FALSE
        <3>1. c > 1 /\ c - 1 = d
            BY <2>2
        <3> QED
            BY <2>2, <3>1 DEF Create
    <2> QED
        BY <2>1, <2>2, Places
<1>4. CASE status'[d] = status[d]
    <2>1. IdleOK(d)'
        BY <1>1, <1>2, <1>3, <1>4 DEF FlowOK, IdleOK, Alive
    <2>2. SameFlow(d)
        BY <1>4, Elsewhere, CurrentKept DEF SameFlow
    <2> QED
        BY <1>1, <2>1, <2>2, SameWay DEF FlowOK, WayOK
<1>5. CASE Deprecate(c) /\ d = c - 1
    <2>1. Current(d) /\ Current(d)' /\ app[c] = "deprecate" /\ d + 1 = c
        BY <1>5, Places DEF Deprecate, Current
    <2>2. \A i \in Images(d) : status'[d][i] = status[d][i] \/ (status[d][i] = "FREE" /\ status'[d][i] = "INVALID")
        <3>1. k[c] \in Images(d)
            BY <1>5, <2>1, Sizes DEF Deprecate, Images, TInv, TypeOK, TypeThreads
        <3>2. TypeImages /\ ShapeOK
            BY DEF TInv, TypeOK
        <3>3. CASE UNCHANGED status
            BY <3>3
        <3>4. CASE status' = [status EXCEPT ![d][k[c]] = "INVALID"] /\ status[d][k[c]] = "FREE"
            <4>1. status'[d] = [status[d] EXCEPT ![k[c]] = "INVALID"]
                BY <3>1, <3>2, <3>4, StatusChange
            <4> QED
                BY <3>2, <3>4, <4>1 DEF TypeImages
        <3> QED
            BY <1>5, <2>1, <3>3, <3>4 DEF Deprecate, Release, SetStatus
    <2>3. Queued(d) = {"PENDING"} /\ Queued(d)' = {"PENDING"} /\ Acquired(d) = {"ACQUIRED"} /\ Acquired(d)' = {"ACQUIRED"}
        BY <2>1 DEF Queued, Acquired
    <2>4. \A i \in Images(d) : InQueue(d, i) => InQueue(d, i)'
        BY <1>2, <2>2, <2>3 DEF InQueue
    <2>5. held[d] \subseteq Images(d) /\ img[d] \in Images(d) /\ hand[d] \in Images(d)
        BY DEF TInv, TypeOK, TypeImages, TypeThreads
    <2>6. InRing(d)' = InRing(d) /\ HasImage(d)' = HasImage(d) /\ \A n \in Nat : Slot(d, n)' = Slot(d, n)
        BY Elsewhere DEF InRing, HasImage, Slot
    <2>7. \A n \in 0 .. InRing(d) - 1 : n \in Nat /\ Slot(d, n) \in Images(d)
        BY Entry
    <2>8. HeldOK(d)'
        BY <1>1, <1>2, <2>2, <2>3, <2>5 DEF FlowOK, HeldOK
    <2>9. RingOK(d)'
        BY <1>1, <1>2, <2>4, <2>6, <2>7, Elsewhere DEF FlowOK, RingOK
    <2>10. MovingOK(d)'
        BY <1>1, <1>2, <2>4, <2>5, <2>6, Elsewhere DEF FlowOK, MovingOK
    <2>11. FirstOK(d)'
        BY <1>1, Elsewhere DEF FlowOK, FirstOK
    <2>12. IdleOK(d)'
        <3>1. app[d] \notin {"none", "gone"} \/ \A i \in Images(d) : status'[d][i] = "INVALID"
            BY <1>1, <2>2 DEF FlowOK, IdleOK, Alive
        <3> QED
            BY <1>1, <1>2, <1>3, <3>1 DEF FlowOK, IdleOK, Alive, Images
    <2> QED
        BY <2>8, <2>9, <2>10, <2>11, <2>12 DEF FlowOK
<1> QED
    BY <1>4, <1>5, Elsewhere

\* What holds of a chain at rest, kept by its own steps.
LEMMA IdleKept ==
    ASSUME TInv, NEW c \in Chain, FlowOK(c), ChainStep(c)
    PROVE  IdleOK(c)'
<1>1. TypeThreads /\ ShapeOK /\ TypeImages
    BY DEF TInv, TypeOK
<1>2. IdleOK(c)
    BY DEF FlowOK
<1>3. app'[c] = "none" => app[c] = "none" /\ ~Create(c) /\ ~AppCall(c) /\ ~AppStep(c)
    <2>1. Create(c) => app'[c] # "none"
        BY <1>1 DEF Create, GoApp, Set, TypeThreads
    <2> QED
        BY <2>1, Places
<1>6. app[c] \in {"none", "deprecate", "gone"} => ~FlipStep(c)
    <2>1. app[c] \in {"none", "deprecate", "gone"} =>
              flip[c] \in {"none", "dead", "sleep"} /\ ~(flipSem[c] > 0)
        BY <1>2 DEF IdleOK
    <2> QED
      BY <2>1 DEF FlipStep, FlipTake, FlipFence, FlipFails, FlipLook, FlipFirst, FlipDrain,
        FlipDrainSleep, FlipBegin, FlipShow, FlipRelease, FlipPost
<1>7. CASE Signal(c)
    <2>1. UNCHANGED <<status, held, app, flip, flipSem, head, tail, img, k, started>>
        BY <1>7 DEF Signal
    <2> QED
        BY <1>2, <2>1 DEF IdleOK, Alive, Images
<1>8. CASE Create(c)
    <2>1. app'[c] \in {"deprecate", "idle"} /\ flip'[c] = "sleep" /\ app[c] = "none"
        BY <1>1, <1>8 DEF Create, GoApp, GoFlip, Set, TypeThreads
    <2>2. UNCHANGED <<held, flipSem, head, tail, k, started>>
        BY <1>8 DEF Create
    <2> QED
        BY <1>2, <2>1, <2>2 DEF IdleOK, Alive
<1>9. CASE Deprecate(c)
    <2>1. UNCHANGED <<held, app, flip, flipSem, head, tail>> /\ app[c] = "deprecate"
        BY <1>9 DEF Deprecate
    <2> QED
        BY <1>2, <2>1 DEF IdleOK, Alive
<1>10. CASE Free(c)
    <2>1. app'[c] = "gone" /\ flip'[c] = "dead"
        BY <1>1, <1>10 DEF Free, GoApp, GoFlip, Set, TypeThreads
    <2>2. held'[c] = {} /\ flipSem'[c] = 0 /\ head'[c] = 0 /\ tail'[c] = 0
        BY <1>1, <1>10 DEF Free, Set, ShapeOK, TInv, TypeOK, TypeSemaphores
    <2>3. \A i \in Images(c) : status'[c][i] = "INVALID"
        BY <1>1, <1>10 DEF Free, Set, ShapeOK
    <2> QED
        BY <2>1, <2>2, <2>3 DEF IdleOK, Alive, Images
<1>11. CASE FlipStep(c)
    <2>1. UNCHANGED <<held, app, img, k, started>> /\ app[c] \notin {"none", "deprecate", "gone"}
        BY <1>6, <1>11 DEF FlipStep, FlipTake, FlipFence, FlipFails, FlipLook, FlipFirst, FlipDrain,
            FlipDrainSleep, FlipBegin, FlipShow, FlipRelease, FlipPost, Sleep
    <2> QED
        BY <1>2, <2>1 DEF IdleOK, Alive
<1>13. c + 1 \in Chain => app'[c + 1] = app[c + 1]
    BY Places
<1>12. ASSUME AppCall(c) \/ AppStep(c), ~Create(c), ~Deprecate(c), ~Free(c)
       PROVE  IdleOK(c)'
    <2> USE <1>12 DEF GoApp, Set, Return, AppCall, AppStep, Acquire, Present, Destroy,
        Deprecated, AcquireTake, AcquireSleep, AcquireNothing, AcquireCheck, AcquireScan,
        AcquireLost, Look, Looked, Submit, SubmitFails, Mark, Enqueue, PostFlip, StartWait,
        DrainCount, DrainTake, DrainSleep, DrainDone, Sleep, Unused
    <2>1. app'[c] \notin {"none", "deprecate", "gone"}
        BY <1>1 DEF TypeThreads
    <2>2. app'[c] \in {"acquire", "taken", "scan"} => (c + 1 \in Chain => app'[c + 1] = "none")
        <3>1. app'[c] \in {"acquire", "taken", "scan"} =>
                  app[c] \in {"acquire", "taken", "scan"} \/ Acquire(c)
            BY <1>1 DEF TypeThreads
        <3>2. Acquire(c) => (c + 1 \in Chain => app[c + 1] = "none")
            BY Sizes
        <3> QED
            BY <1>2, <1>13, <3>1, <3>2 DEF IdleOK
    <2>3. app'[c] \in {"submit", "mark", "presentLook"} => img'[c] \in held'[c]
        <3>1. CASE Present(c)
            BY <1>1, <3>1 DEF ShapeOK
        <3>2. CASE ~Present(c)
            <4>1. app'[c] \in {"submit", "mark", "presentLook"} =>
                     app[c] \in {"submit", "presentLook"} /\ UNCHANGED <<img, held>>
                BY <1>1, <3>2 DEF TypeThreads
            <4> QED
                BY <1>2, <4>1 DEF IdleOK
        <3> QED
            BY <3>1, <3>2
    <2>4. app'[c] = "idle" => k'[c] = 0 /\ ~started'[c]
        BY <1>1 DEF TypeThreads
    <2>5. app'[c] \in {"acquire", "taken"} => k'[c] = 0
        BY <1>1, <1>2 DEF TypeThreads, IdleOK
    <2> QED
        BY <2>1, <2>2, <2>3, <2>4, <2>5 DEF IdleOK, Alive
<1> QED
    BY <1>7, <1>8, <1>9, <1>10, <1>11, <1>12 DEF ChainStep

\* What the statuses of images may be, when one image changes its own.
LEMMA OneImage ==
    ASSUME TInv, NEW c \in Chain, NEW i \in Images(c), NEW v, SetStatus(c, i, v)
    PROVE  status'[c][i] = v /\ \A j \in Images(c) : j # i => status'[c][j] = status[c][j]
<1>1. status'[c] = [status[c] EXCEPT ![i] = v]
    BY StatusChange DEF SetStatus, TInv, TypeOK
<1> QED
    BY <1>1 DEF TInv, TypeOK, TypeImages

\* The ring and its images, when the threads of chain c only go on.
LEMMA WayGoesOn ==
    ASSUME TInv, NEW c \in Chain, FlowOK(c), AppCall(c) \/ AppStep(c),
           ~Create(c), ~AcquireScan(c), ~Mark(c), ~Enqueue(c), ~PostFlip(c), ~Free(c), ~Deprecate(c)
    PROVE  WayOK(c)'
<1>1. TypeThreads
    BY DEF TInv, TypeOK
<1> USE DEF GoApp, Set, Return, AppCall, AppStep, Acquire, Present, Destroy,
        Deprecated, AcquireTake, AcquireSleep, AcquireNothing, AcquireCheck,
        AcquireLost, Look, Looked, Submit, SubmitFails, StartWait,
        DrainCount, DrainTake, DrainSleep, DrainDone, Sleep, Unused
<1>2. UNCHANGED <<status, held, ring, head, tail, flipSem, flip, hand, first>>
    OBVIOUS
<1>3. app[c] \notin {"post", "enqueue"} /\ app'[c] \notin {"post", "enqueue"}
    BY <1>1 DEF TypeThreads
<1>4. ~Current(c) => ~Current(c)'
    BY CurrentKept DEF ChainStep
<1>5. SameFlow(c)
    BY <1>2, <1>3, <1>4 DEF SameFlow
<1> QED
    BY <1>5, SameWay DEF FlowOK, WayOK

\* A swapchain that is created has nothing on its way.
LEMMA WayCreate == ASSUME TInv, NEW c \in Chain, FlowOK(c), Create(c) PROVE WayOK(c)'
<1>1. TypeThreads
    BY DEF TInv, TypeOK
<1>2. flipSem[c] = 0 /\ held[c] = {} /\ head[c] = 0 /\ tail[c] = 0 /\ app[c] = "none"
    BY DEF FlowOK, IdleOK, Create
<1>3. app'[c] \in {"deprecate", "idle"} /\ flip'[c] = "sleep"
    BY <1>1 DEF Create, GoApp, GoFlip, Set, TypeThreads
<1>4. UNCHANGED <<flipSem, held, head, tail>>
    BY DEF Create
<1>5. InRing(c)' = 0 /\ ~HasImage(c)'
    BY <1>2, <1>3, <1>4 DEF InRing, HasImage
<1>6. (head[c] + 0) % ImageCount[c] = tail[c]
    BY <1>2, Sizes, NoRemainder
<1> QED
    BY <1>2, <1>3, <1>4, <1>5, <1>6 DEF WayOK, HeldOK, RingOK, MovingOK, FirstOK

\* A swapchain that is freed has no application any more.
LEMMA WayFree == ASSUME TInv, NEW c \in Chain, Free(c) PROVE WayOK(c)'
<1>1. TypeOK /\ ShapeOK
    BY DEF TInv
<1>2. app'[c] = "gone" /\ flip'[c] = "dead"
    BY <1>1 DEF Free, GoApp, GoFlip, Set, TypeOK, TypeThreads
<1>3. held'[c] = {} /\ flipSem'[c] = 0 /\ head'[c] = 0 /\ tail'[c] = 0
    BY <1>1 DEF Free, Set, ShapeOK, TypeOK, TypeSemaphores
<1>4. InRing(c)' = 0 /\ ~HasImage(c)'
    BY <1>2, <1>3 DEF InRing, HasImage
<1>5. (0 + 0) % ImageCount[c] = 0
    BY Sizes, NoRemainder
<1> QED
    BY <1>2, <1>3, <1>4, <1>5 DEF WayOK, HeldOK, RingOK, MovingOK, FirstOK

\* The new swapchain looks at the images of the old one, not at its own.
LEMMA WayDeprecate == ASSUME TInv, NEW c \in Chain, FlowOK(c), Deprecate(c) PROVE WayOK(c)'
<1>1. c - 1 \in Chain /\ c - 1 # c /\ k[c] \in Images(c - 1)
    BY Sizes DEF Deprecate, TInv, LinksOK, LinkOK, TypeOK, TypeThreads, Images
<1>2. status'[c] = status[c]
    BY <1>1, StatusChange DEF Deprecate, Release, SetStatus, TInv, TypeOK
<1>3. UNCHANGED <<held, ring, head, tail, flipSem, flip, hand, first, app, img>>
    BY DEF Deprecate
<1>4. SameFlow(c)
    BY <1>2, <1>3, CurrentKept DEF SameFlow, ChainStep, AppStep
<1> QED
    BY <1>4, SameWay DEF FlowOK, WayOK

\* An image that is acquired is neither marked nor in the ring.
LEMMA WayScan == ASSUME TInv, NEW c \in Chain, FlowOK(c), AcquireScan(c) PROVE WayOK(c)'
<1>1. TypeThreads /\ ShapeOK /\ TypeImages
    BY DEF TInv, TypeOK
<1>2. UNCHANGED <<ring, head, tail, flipSem, flip, hand, first>>
    BY DEF AcquireScan
<1>3. app[c] = "scan" /\ app'[c] \in {"scan", "idle"}
    BY <1>1 DEF AcquireScan, Return, GoApp, Set, TypeThreads
<1>4. ~Current(c) => ~Current(c)'
    BY CurrentKept DEF ChainStep, AppStep
<1>5. CASE status[c][k[c]] # "FREE"
    <2>1. UNCHANGED <<status, held>>
        BY <1>5 DEF AcquireScan
    <2>2. SameFlow(c)
        BY <1>2, <1>3, <1>4, <2>1 DEF SameFlow
    <2> QED
        BY <2>2, SameWay DEF FlowOK, WayOK
<1>6. CASE status[c][k[c]] = "FREE"
    <2> DEFINE i == k[c]
    <2>1. i \in Images(c) /\ SetStatus(c, i, "ACQUIRED") /\ held' = [held EXCEPT ![c] = @ \union {i}]
        BY <1>1, <1>6, Sizes DEF AcquireScan, TypeThreads, Images
    <2>2. status'[c][i] = "ACQUIRED" /\ \A j \in Images(c) : j # i => status'[c][j] = status[c][j]
        BY <2>1, OneImage
    <2>3. held'[c] = held[c] \union {i}
        BY <1>1, <2>1 DEF ShapeOK
    <2>4. Current(c)
        BY <1>3 DEF FlowOK, IdleOK, Current
    <2>5. Queued(c) = {"PENDING"} /\ "PENDING" \in Queued(c)'
        BY <2>4 DEF Queued
    <2>6. Acquired(c) \subseteq Acquired(c)' /\ "ACQUIRED" \in Acquired(c)'
        BY <1>2, <1>4 DEF Acquired
    <2>7. \A j \in Images(c) : InQueue(c, j) => j # i /\ InQueue(c, j)'
        BY <1>6, <2>2, <2>3, <2>5 DEF InQueue
    <2>8. InRing(c)' = InRing(c) /\ HasImage(c)' = HasImage(c) /\ \A n \in Nat : Slot(c, n)' = Slot(c, n)
        BY <1>2, <1>3 DEF InRing, HasImage, Slot
    <2>9. \A n \in 0 .. InRing(c) - 1 : n \in Nat /\ Slot(c, n) \in Images(c)
        BY Entry
    <2>10. HeldOK(c)'
        BY <1>1, <2>2, <2>3, <2>6 DEF FlowOK, HeldOK, TypeImages
    <2>11. RingOK(c)'
        BY <1>2, <1>3, <2>7, <2>8, <2>9 DEF FlowOK, RingOK
    <2>12. MovingOK(c)'
        BY <1>1, <1>2, <1>3, <2>7, <2>8 DEF FlowOK, MovingOK, TypeThreads
    <2>13. FirstOK(c)'
        BY <1>2 DEF FlowOK, FirstOK
    <2> QED
        BY <2>10, <2>11, <2>12, <2>13 DEF WayOK
<1> QED
    BY <1>5, <1>6

\* The image that queue_present marks is taken from those held.
LEMMA WayMark == ASSUME TInv, NEW c \in Chain, FlowOK(c), Mark(c) PROVE WayOK(c)'
<1> DEFINE i == img[c]
<1>1. TypeThreads /\ ShapeOK /\ TypeImages
    BY DEF TInv, TypeOK
<1>2. UNCHANGED <<ring, head, tail, flipSem, flip, hand, first, img>> /\ app[c] = "mark" /\ app'[c] = "enqueue"
    BY <1>1 DEF Mark, GoApp, Set, TypeThreads
<1>3. i \in Images(c) /\ i \in held[c] /\ held'[c] = held[c] \ {i}
    BY <1>1, <1>2 DEF Mark, ShapeOK, TypeThreads, FlowOK, IdleOK
<1>4. status'[c][i] = (IF started[c] THEN "FREE" ELSE "PENDING")
      /\ \A j \in Images(c) : j # i => status'[c][j] = status[c][j]
    BY <1>3, OneImage DEF Mark
<1>5. ~Current(c) => ~Current(c)'
    BY CurrentKept DEF ChainStep, AppStep
<1>6. Queued(c) \subseteq Queued(c)' /\ Acquired(c) \subseteq Acquired(c)'
    BY <1>2, <1>5 DEF Queued, Acquired
<1>7. (IF started[c] THEN "FREE" ELSE "PENDING") \in Queued(c)'
    BY <1>5 DEF Queued, TInv, LinksOK, LinkOK
<1>8. \A j \in Images(c) : InQueue(c, j) => j # i /\ InQueue(c, j)'
    BY <1>3, <1>4, <1>6 DEF InQueue
<1>9. InQueue(c, i)'
    BY <1>2, <1>3, <1>4, <1>7 DEF InQueue
<1>10. InRing(c)' = InRing(c) /\ HasImage(c)' = HasImage(c) /\ \A n \in Nat : Slot(c, n)' = Slot(c, n)
    BY <1>2 DEF InRing, HasImage, Slot
<1>11. \A n \in 0 .. InRing(c) - 1 : n \in Nat /\ Slot(c, n) \in Images(c)
    BY Entry
<1>12. HeldOK(c)'
    BY <1>1, <1>3, <1>4, <1>6 DEF FlowOK, HeldOK, TypeImages
<1>13. RingOK(c)'
    BY <1>2, <1>8, <1>10, <1>11 DEF FlowOK, RingOK
<1>14. MovingOK(c)'
    BY <1>1, <1>2, <1>8, <1>9, <1>10 DEF FlowOK, MovingOK, TypeThreads
<1>15. FirstOK(c)'
    BY <1>2 DEF FlowOK, FirstOK
<1> QED
    BY <1>12, <1>13, <1>14, <1>15 DEF WayOK

\* The image that is entered comes last; the tail stays where the ring ends.
LEMMA Enters ==
    ASSUME TInv, NEW c \in Chain, FlowOK(c), Enqueue(c), NEW n, n = InRing(c)
    PROVE  /\ n \in Nat /\ InRing(c)' = n + 1
           /\ \A m \in 0 .. n - 1 : Slot(c, m)' = Slot(c, m)
           /\ Slot(c, n)' = img[c]
           /\ (head'[c] + InRing(c)') % ImageCount[c] = tail'[c]
<1> DEFINE size == ImageCount[c]
<1>1. TypeThreads /\ ShapeOK /\ TypeRing /\ RingOK(c) /\ MovingOK(c)
    BY DEF TInv, TypeOK, FlowOK
<1>2. UNCHANGED <<status, held, head, flipSem, flip, hand, first, img>> /\ app[c] = "enqueue" /\ app'[c] = "post"
    BY <1>1 DEF Enqueue, GoApp, Set, TypeThreads
<1>3. /\ tail[c] \in Images(c) /\ head[c] \in 0 .. size - 1 /\ size \in Nat \ {0}
      /\ tail'[c] = (tail[c] + 1) % size /\ ring'[c] = [ring[c] EXCEPT ![tail[c]] = img[c]]
    BY <1>1, Sizes DEF Enqueue, Set, ShapeOK, TypeRing, Images
<1>4. n \in Nat /\ n < size /\ InRing(c)' = n + 1 /\ tail[c] = (head[c] + n) % size
    <2>1. n \in Nat /\ n < size
        BY <1>1, <1>2, Entry, Room
    <2>2. flipSem[c] \in Nat
        BY DEF TInv, TypeOK, TypeSemaphores
    <2> QED
        BY <1>1, <1>2, <2>1, <2>2 DEF InRing, RingOK
<1>5. \A m \in 0 .. n : (head[c] + m) % size = IF head[c] + m < size THEN head[c] + m ELSE head[c] + m - size
    <2> SUFFICES ASSUME NEW m \in 0 .. n
                 PROVE  (head[c] + m) % size = IF head[c] + m < size THEN head[c] + m ELSE head[c] + m - size
        OBVIOUS
    <2>1. m \in 0 .. size
        BY <1>3, <1>4
    <2> QED
        BY <1>3, <2>1, Around
<1> HIDE DEF size
<1>6. \A m \in 0 .. n - 1 : Slot(c, m)' = Slot(c, m)
    <2> SUFFICES ASSUME NEW m \in 0 .. n - 1 PROVE Slot(c, m)' = Slot(c, m)
        OBVIOUS
    <2>1. (head[c] + m) % size # tail[c]
        BY <1>3, <1>4, <1>5
    <2>2. (head[c] + m) % size \in Images(c)
        BY Entry, <1>4 DEF size
    <2> QED
        BY <1>1, <1>2, <1>3, <2>1, <2>2 DEF Slot, TypeRing, size
<1>7. Slot(c, n)' = img[c]
    BY <1>1, <1>2, <1>3, <1>4 DEF Slot, TypeRing, size
<1>8. (head'[c] + InRing(c)') % size = tail'[c]
    <2>1. (head[c] + (n + 1)) % size = IF head[c] + (n + 1) < size THEN head[c] + (n + 1) ELSE head[c] + (n + 1) - size
        <3>1. n + 1 \in 0 .. size
            BY <1>3, <1>4
        <3> QED
            BY <1>3, <3>1, Around
    <2>2. (tail[c] + 1) % size = IF tail[c] + 1 < size THEN tail[c] + 1 ELSE tail[c] + 1 - size
        <3>1. tail[c] \in 0 .. size - 1 /\ 1 \in 0 .. size
            BY <1>3 DEF Images, size
        <3> QED
            BY <1>3, <3>1, Around
    <2>3. tail[c] = IF head[c] + n < size THEN head[c] + n ELSE head[c] + n - size
        BY <1>4, <1>5
    <2>4. (head[c] + (n + 1)) % size = (tail[c] + 1) % size
        BY <1>3, <1>4, <2>1, <2>2, <2>3
    <2> QED
        BY <1>2, <1>3, <1>4, <2>4
<1> QED
    BY <1>4, <1>6, <1>7, <1>8 DEF size

\* The marked image enters the ring, where there is room for it.
LEMMA WayEnqueue == ASSUME TInv, NEW c \in Chain, FlowOK(c), Enqueue(c) PROVE WayOK(c)'
<1> SUFFICES ASSUME NEW n, n = InRing(c) PROVE WayOK(c)'
    OBVIOUS
<1>1. TypeThreads /\ ShapeOK /\ TypeRing /\ RingOK(c) /\ MovingOK(c)
    BY DEF TInv, TypeOK, FlowOK
<1>2. UNCHANGED <<status, held, head, flipSem, flip, hand, first, img>> /\ app[c] = "enqueue" /\ app'[c] = "post"
    BY <1>1 DEF Enqueue, GoApp, Set, TypeThreads
<1>4. n \in Nat /\ InRing(c)' = n + 1
    BY Enters
<1>6. \A m \in 0 .. n - 1 : Slot(c, m)' = Slot(c, m)
    BY Enters
<1>7. Slot(c, n)' = img[c]
    BY Enters
<1>8. (head'[c] + InRing(c)') % ImageCount[c] = tail'[c]
    BY Enters
<1>9. HasImage(c)' = HasImage(c) /\ (\A i : InQueue(c, i) => InQueue(c, i)') /\ InQueue(c, img[c])
    <2>1. ~Current(c) => ~Current(c)'
        BY CurrentKept DEF ChainStep, AppStep
    <2>2. Queued(c) \subseteq Queued(c)'
        BY <1>2, <2>1 DEF Queued
    <2> QED
        BY <1>1, <1>2, <2>2 DEF HasImage, InQueue, MovingOK
<1>10. /\ \A m \in 0 .. n - 1 : InQueue(c, Slot(c, m)) /\ Slot(c, m) # img[c] /\ (HasImage(c) => Slot(c, m) # hand[c])
       /\ \A l, m \in 0 .. n - 1 : l # m => Slot(c, l) # Slot(c, m)
    BY <1>1, <1>2 DEF RingOK
<1>11. \A m \in 0 .. InRing(c)' - 1 : m \in 0 .. n - 1 \/ m = n
    BY <1>4
<1>12. HasImage(c) => img[c] # hand[c]
    BY <1>1, <1>2 DEF MovingOK
<1>13. RingOK(c)'
    <2>1. \A l, m \in 0 .. InRing(c)' - 1 : l # m => Slot(c, l)' # Slot(c, m)'
        BY <1>6, <1>7, <1>10, <1>11
    <2>2. \A m \in 0 .. InRing(c)' - 1 :
            /\ InQueue(c, Slot(c, m))'
            /\ HasImage(c)' => Slot(c, m)' # hand'[c]
        BY <1>2, <1>6, <1>7, <1>9, <1>10, <1>11, <1>12
    <2> QED
        BY <1>2, <1>8, <2>1, <2>2 DEF RingOK
<1>14. MovingOK(c)'
    BY <1>1, <1>2, <1>9 DEF MovingOK
<1>15. HeldOK(c)' /\ FirstOK(c)'
    <2>1. Acquired(c) \subseteq Acquired(c)'
        BY <1>2, CurrentKept DEF ChainStep, AppStep, Acquired
    <2> QED
        BY <1>2, <2>1 DEF FlowOK, HeldOK, FirstOK
<1> QED
    BY <1>13, <1>14, <1>15 DEF WayOK

\* m_page_flip_semaphore is posted for the image that has entered.
LEMMA WayPostFlip == ASSUME TInv, NEW c \in Chain, FlowOK(c), PostFlip(c) PROVE WayOK(c)'
<1>1. TypeThreads /\ flipSem \in [Chain -> Nat]
    BY DEF TInv, TypeOK, TypeSemaphores
<1>2. UNCHANGED <<status, held, ring, head, tail, flip, hand, first>> /\ app[c] = "post" /\ app'[c] = "idle"
      /\ flipSem'[c] = flipSem[c] + 1
    BY <1>1 DEF PostFlip, Return, GoApp, Set, TypeThreads
<1>3. InRing(c)' = InRing(c) /\ HasImage(c)' = HasImage(c) /\ \A n \in Nat : Slot(c, n)' = Slot(c, n)
    BY <1>1, <1>2 DEF InRing, HasImage, Slot
<1>4. ~Current(c) => ~Current(c)'
    BY CurrentKept DEF ChainStep, AppStep
<1>5. Queued(c) \subseteq Queued(c)' /\ Acquired(c) \subseteq Acquired(c)'
    BY <1>2, <1>4 DEF Queued, Acquired
<1>6. \A i : InQueue(c, i) => InQueue(c, i)'
    BY <1>2, <1>5 DEF InQueue
<1>7. \A n \in 0 .. InRing(c) - 1 : n \in Nat
    OBVIOUS
<1>8. RingOK(c)'
    BY <1>2, <1>3, <1>6, <1>7 DEF FlowOK, RingOK
<1> QED
    BY <1>2, <1>3, <1>5, <1>6, <1>8 DEF FlowOK, WayOK, HeldOK, MovingOK, FirstOK

\* The page flip thread takes the oldest entry, and the others move up.
LEMMA Leaves ==
    ASSUME TInv, NEW c \in Chain, FlowOK(c), FlipTake(c), NEW n, n = InRing(c)
    PROVE  /\ n \in Nat /\ n > 0 /\ InRing(c)' = n - 1
           /\ \A m \in 0 .. n - 2 : Slot(c, m)' = Slot(c, m + 1) /\ m + 1 \in 1 .. n - 1
           /\ hand'[c] = Slot(c, 0)
           /\ (head'[c] + InRing(c)') % ImageCount[c] = tail'[c]
<1> DEFINE size == ImageCount[c]
<1>1. TypeThreads /\ ShapeOK /\ TypeRing /\ RingOK(c) /\ MovingOK(c) /\ flipSem \in [Chain -> Nat]
    BY DEF TInv, TypeOK, FlowOK, TypeSemaphores
<1>2. UNCHANGED <<status, held, ring, tail, app, first, img>> /\ flip[c] = "sleep" /\ flip'[c] = "fence"
    BY <1>1 DEF FlipTake, GoFlip, Set, TypeThreads
<1>3. /\ head[c] \in 0 .. size - 1 /\ size \in Nat \ {0} /\ hand'[c] = ring[c][head[c]]
      /\ head'[c] = (head[c] + 1) % size /\ flipSem[c] > 0 /\ flipSem'[c] = flipSem[c] - 1
    BY <1>1, Sizes DEF FlipTake, Set, ShapeOK, TypeRing, Images
<1>4. n \in Nat /\ n > 0 /\ n <= size /\ InRing(c)' = n - 1 /\ tail[c] = (head[c] + n) % size
    <2>1. n \in Nat /\ n <= size
        BY <1>1, Entry, Room
    <2>2. n = flipSem[c] + (IF app[c] = "post" THEN 1 ELSE 0)
        BY DEF InRing
    <2>3. InRing(c)' = flipSem[c] - 1 + (IF app[c] = "post" THEN 1 ELSE 0)
        BY <1>2, <1>3 DEF InRing
    <2>4. flipSem[c] \in Nat /\ flipSem[c] > 0
        BY <1>1, <1>3
    <2>5. n > 0 /\ InRing(c)' = n - 1
        BY <2>2, <2>3, <2>4
    <2>6. tail[c] = (head[c] + n) % size
        BY <1>1 DEF RingOK
    <2> QED
        BY <2>1, <2>5, <2>6
<1> HIDE DEF size
<1>5. ASSUME NEW m \in 0 .. n - 1 PROVE (head'[c] + m) % size = (head[c] + (m + 1)) % size
    <2>1. m \in 0 .. size /\ m + 1 \in 0 .. size /\ 1 \in 0 .. size
        BY <1>3, <1>4
    <2>2. head'[c] = IF head[c] + 1 < size THEN head[c] + 1 ELSE head[c] + 1 - size
        BY <1>3, <2>1, Around
    <2>3. head'[c] \in 0 .. size - 1
        BY <1>3, <2>2
    <2>4. (head'[c] + m) % size = IF head'[c] + m < size THEN head'[c] + m ELSE head'[c] + m - size
        BY <1>3, <2>1, <2>3, Around
    <2>5. (head[c] + (m + 1)) % size = IF head[c] + (m + 1) < size THEN head[c] + (m + 1) ELSE head[c] + (m + 1) - size
        BY <1>3, <2>1, Around
    <2> QED
        BY <1>3, <1>4, <2>2, <2>4, <2>5
<1>6. \A m \in 0 .. n - 2 : Slot(c, m)' = Slot(c, m + 1) /\ m + 1 \in 1 .. n - 1
    BY <1>2, <1>4, <1>5 DEF Slot, size
<1>7. hand'[c] = Slot(c, 0)
    <2>1. (head[c] + 0) % size = head[c]
        <3>1. 0 \in 0 .. size
            BY <1>3
        <3> QED
            BY <1>3, <3>1, Around
    <2> QED
        BY <1>3, <2>1 DEF Slot, size
<1>8. (head'[c] + InRing(c)') % size = tail'[c]
    <2>1. n - 1 \in 0 .. n - 1 /\ (n - 1) + 1 = n
        BY <1>4
    <2> QED
        BY <1>2, <1>4, <1>5, <2>1
<1> QED
    BY <1>4, <1>6, <1>7, <1>8 DEF size

\* The page flip thread takes the oldest image out of the ring.
LEMMA WayFlipTake == ASSUME TInv, NEW c \in Chain, FlowOK(c), FlipTake(c) PROVE WayOK(c)'
<1> SUFFICES ASSUME NEW n, n = InRing(c) PROVE WayOK(c)'
    OBVIOUS
<1>1. TypeThreads /\ RingOK(c) /\ MovingOK(c)
    BY DEF TInv, TypeOK, FlowOK
<1>2. UNCHANGED <<status, held, ring, tail, app, first, img>> /\ flip[c] = "sleep" /\ flip'[c] = "fence"
    BY <1>1 DEF FlipTake, GoFlip, Set, TypeThreads
<1>4. n \in Nat /\ n > 0 /\ InRing(c)' = n - 1
    BY Leaves
<1>6. \A m \in 0 .. n - 2 : Slot(c, m)' = Slot(c, m + 1) /\ m + 1 \in 1 .. n - 1
    BY Leaves
<1>7. hand'[c] = Slot(c, 0)
    BY Leaves
<1>8. (head'[c] + InRing(c)') % ImageCount[c] = tail'[c]
    BY Leaves
<1>9. HasImage(c)' /\ ~HasImage(c) /\ \A i : InQueue(c, i) => InQueue(c, i)'
    <2>1. ~Current(c) => ~Current(c)'
        BY CurrentKept DEF ChainStep, FlipStep
    <2>2. Queued(c) \subseteq Queued(c)'
        BY <1>2, <2>1 DEF Queued
    <2> QED
        BY <1>2, <2>2 DEF HasImage, InQueue
<1>10. /\ \A m \in 0 .. n - 1 : InQueue(c, Slot(c, m)) /\ (app[c] = "enqueue" => Slot(c, m) # img[c])
       /\ \A l, m \in 0 .. n - 1 : l # m => Slot(c, l) # Slot(c, m)
    BY <1>1 DEF RingOK
<1>11. \A m \in 0 .. InRing(c)' - 1 : m \in 0 .. n - 2
    BY <1>4
<1>12. 0 \in 0 .. n - 1 /\ \A m \in 1 .. n - 1 : m \in 0 .. n - 1 /\ m # 0
    BY <1>4
<1>13. RingOK(c)'
    <2>1. \A l, m \in 0 .. n - 2 : l # m => l + 1 # m + 1
        BY <1>4
    <2>2. \A l, m \in 0 .. InRing(c)' - 1 : l # m => Slot(c, l)' # Slot(c, m)'
        BY <1>6, <1>10, <1>11, <1>12, <2>1
    <2>3. \A m \in 0 .. InRing(c)' - 1 :
            /\ InQueue(c, Slot(c, m))'
            /\ Slot(c, m)' # hand'[c]
            /\ app'[c] = "enqueue" => Slot(c, m)' # img'[c]
        BY <1>2, <1>6, <1>7, <1>9, <1>10, <1>11, <1>12
    <2> QED
        BY <1>8, <2>2, <2>3 DEF RingOK
<1>14. MovingOK(c)'
    BY <1>1, <1>2, <1>7, <1>9, <1>10, <1>12 DEF MovingOK
<1>15. HeldOK(c)' /\ FirstOK(c)'
    <2>1. Acquired(c) \subseteq Acquired(c)'
        BY <1>2, CurrentKept DEF ChainStep, FlipStep, Acquired
    <2> QED
        BY <1>2, <2>1 DEF FlowOK, HeldOK, FirstOK
<1> QED
    BY <1>13, <1>14, <1>15 DEF WayOK

\* The page flip thread goes on and no image moves, or it is done with one.
LEMMA WayFlips ==
    ASSUME TInv, NEW c \in Chain, FlowOK(c), FlipStep(c) \/ Signal(c),
           ~FlipTake(c), ~FlipLook(c), ~FlipShow(c), ~FlipRelease(c)
    PROVE  WayOK(c)'
<1>1. TypeThreads /\ first \in [Chain -> BOOLEAN]
    BY DEF TInv, TypeOK, TypeChains
<1>2. /\ UNCHANGED <<status, held, ring, head, tail, flipSem, app, img>>
      /\ HasImage(c)' => HasImage(c) /\ hand'[c] = hand[c]
      /\ first'[c] => first[c] /\ flip'[c] \notin {"show", "shown"}
    <2>1. UNCHANGED <<status, held, ring, head, tail, flipSem, app, img>>
        BY DEF FlipStep, FlipFence, FlipFails, FlipFirst, FlipDrain, FlipDrainSleep, FlipBegin,
            FlipPost, Sleep, Signal
    <2>2. HasImage(c)' => HasImage(c) /\ hand'[c] = hand[c]
        BY <1>1 DEF FlipStep, FlipFence, FlipFails, FlipFirst, FlipDrain, FlipDrainSleep, FlipBegin,
            FlipPost, Sleep, Signal, HasImage, GoFlip, Set, TypeThreads
    <2>3. first'[c] => first[c] /\ flip'[c] \notin {"show", "shown"}
        BY <1>1 DEF FlipStep, FlipFence, FlipFails, FlipFirst, FlipDrain, FlipDrainSleep, FlipBegin,
            FlipPost, Sleep, Signal, GoFlip, Set, TypeThreads, FlowOK, FirstOK
    <2> QED
        BY <2>1, <2>2, <2>3
<1>3. InRing(c)' = InRing(c) /\ \A n \in Nat : Slot(c, n)' = Slot(c, n)
    BY <1>2 DEF InRing, Slot
<1>4. ~Current(c) => ~Current(c)'
    BY CurrentKept DEF ChainStep
<1>5. Queued(c) \subseteq Queued(c)' /\ Acquired(c) \subseteq Acquired(c)'
    BY <1>2, <1>4 DEF Queued, Acquired
<1>6. \A i : InQueue(c, i) => InQueue(c, i)'
    BY <1>2, <1>5 DEF InQueue
<1>7. \A n \in 0 .. InRing(c) - 1 : n \in Nat
    OBVIOUS
<1>8. RingOK(c)'
    BY <1>2, <1>3, <1>6, <1>7 DEF FlowOK, RingOK
<1> QED
    BY <1>2, <1>5, <1>6, <1>8 DEF FlowOK, WayOK, HeldOK, MovingOK, FirstOK

\* The page flip thread changes the status of the image in its hand and nothing else.
LEMMA WayHand ==
    ASSUME TInv, NEW c \in Chain, FlowOK(c), FlipLook(c) \/ FlipShow(c) \/ FlipRelease(c)
    PROVE  WayOK(c)'
<1> DEFINE i == hand[c]
<1>1. TypeThreads /\ TypeImages /\ i \in Images(c)
    BY DEF TInv, TypeOK, TypeThreads
<1>2. UNCHANGED <<held, ring, head, tail, flipSem, app, img, hand, first>>
    BY DEF FlipLook, FlipShow, FlipRelease
<1>3. InRing(c)' = InRing(c) /\ \A n \in Nat : Slot(c, n)' = Slot(c, n)
    BY <1>2 DEF InRing, Slot
<1>4. Current(c)' = Current(c)
    <2>1. \A d \in Chain : app'[d] = app[d]
        BY <1>2
    <2> QED
        BY <2>1 DEF Current
<1>5. Queued(c)' = Queued(c) /\ Acquired(c)' = Acquired(c)
    BY <1>2, <1>4 DEF Queued, Acquired
<1>6. \A n \in 0 .. InRing(c) - 1 : n \in Nat /\ Slot(c, n) \in Images(c)
    BY Entry
<1>7. held[c] \subseteq Images(c) /\ img[c] \in Images(c)
    BY <1>1 DEF TypeImages, TypeThreads
<1>8. CASE UNCHANGED status
    <2>1. HasImage(c)' => HasImage(c)
        BY <1>1 DEF FlipLook, FlipShow, FlipRelease, HasImage, GoFlip, Set, TypeThreads
    <2>2. \A j : InQueue(c, j) => InQueue(c, j)'
        BY <1>2, <1>5, <1>8 DEF InQueue
    <2>3. FirstOK(c)'
        BY <1>1, <1>2 DEF FlipLook, FlipShow, FlipRelease, GoFlip, Set, TypeThreads, FlowOK, FirstOK
    <2>4. RingOK(c)'
        BY <1>2, <1>3, <1>6, <2>1, <2>2 DEF FlowOK, RingOK
    <2> QED
        BY <1>2, <1>5, <1>8, <2>1, <2>2, <2>3, <2>4 DEF FlowOK, WayOK, HeldOK, MovingOK
<1>9. ASSUME ~UNCHANGED status PROVE WayOK(c)'
    <2>5. \E v \in {"INVALID", "FREE"} : SetStatus(c, i, v)
        BY <1>9 DEF FlipLook, FlipShow, FlipRelease, Release
    <2>1. \A j \in Images(c) : j # i => status'[c][j] = status[c][j]
        BY <1>1, <2>5, OneImage
    <2>2. ~HasImage(c)' /\ FirstOK(c)'
        BY <1>1, <1>2, <1>9 DEF FlowOK, FirstOK, HasImage, FlipLook, FlipShow, FlipRelease, GoFlip,
            Set, TypeThreads
    <2>3. CASE HasImage(c)
        <3>1. \A j \in Images(c) : j # i /\ InQueue(c, j) => InQueue(c, j)'
            BY <1>2, <1>5, <2>1 DEF InQueue
        <3>2. i \notin held[c]
            BY <2>3 DEF FlowOK, MovingOK, InQueue
        <3>3. HeldOK(c)'
            BY <1>2, <1>5, <1>7, <2>1, <3>2 DEF FlowOK, HeldOK
        <3>4. RingOK(c)'
            BY <1>2, <1>3, <1>6, <2>2, <2>3, <3>1 DEF FlowOK, RingOK
        <3>5. MovingOK(c)'
            BY <1>2, <1>7, <2>2, <2>3, <3>1 DEF FlowOK, MovingOK
        <3> QED
            BY <2>2, <3>3, <3>4, <3>5 DEF WayOK
    <2>4. CASE ~HasImage(c)
        <3>1. flip[c] = "shown" /\ descendant[c] # NoChain /\ status'[c][i] = "INVALID"
            <4>1. ~FlipLook(c) /\ ~FlipShow(c)
                BY <2>4 DEF FlipLook, FlipShow, HasImage
            <4>2. flip[c] = "shown"
                BY <4>1 DEF FlipRelease
            <4>3. CASE descendant[c] # NoChain
                BY <1>1, <4>1, <4>2, <4>3, OneImage DEF FlipRelease, Release
            <4>4. CASE descendant[c] = NoChain
                BY <1>9, <4>1, <4>4 DEF FlipRelease
            <4> QED
                BY <4>2, <4>3, <4>4
        <3>2. "INVALID" \in Queued(c) /\ "INVALID" \in Acquired(c)
            BY <3>1 DEF TInv, LinksOK, LinkOK, FlowOK, FirstOK, Queued, Acquired
        <3>3. \A j \in Images(c) : InQueue(c, j) => InQueue(c, j)'
            BY <1>2, <1>5, <2>1, <3>1, <3>2 DEF InQueue
        <3>4. HeldOK(c)'
            BY <1>2, <1>5, <1>7, <2>1, <3>1, <3>2 DEF FlowOK, HeldOK
        <3>5. RingOK(c)'
            BY <1>2, <1>3, <1>6, <2>2, <3>3 DEF FlowOK, RingOK
        <3>6. MovingOK(c)'
            BY <1>2, <1>7, <2>2, <3>3 DEF FlowOK, MovingOK
        <3> QED
            BY <2>2, <3>4, <3>5, <3>6 DEF WayOK
    <2> QED
        BY <2>3, <2>4
<1> QED
    BY <1>8, <1>9

\* Nothing is on its way at the beginning.
LEMMA FInit == Init => FInv
<1> SUFFICES ASSUME Init, NEW c \in Chain PROVE FlowOK(c)
    BY DEF FInv
<1>1. /\ app[c] = "none" /\ flip[c] = "none" /\ held[c] = {} /\ head[c] = 0 /\ tail[c] = 0
      /\ flipSem[c] = 0 /\ k[c] = 0 /\ started[c] = FALSE
      /\ status[c] = [i \in Images(c) |-> "INVALID"]
    BY DEF Init
<1>2. IdleOK(c)
    BY <1>1 DEF IdleOK, Alive
<1>3. InRing(c) = 0 /\ ~HasImage(c)
    BY <1>1 DEF InRing, HasImage
<1>4. (head[c] + 0) % ImageCount[c] = tail[c]
    BY <1>1, Sizes, NoRemainder
<1> QED
    BY <1>1, <1>2, <1>3, <1>4 DEF FlowOK, HeldOK, RingOK, MovingOK, FirstOK

\* A step of a chain keeps the way of its own images.
LEMMA FlowKept == ASSUME TInv, NEW c \in Chain, FlowOK(c), ChainStep(c) PROVE FlowOK(c)'
<1>1. IdleOK(c)'
    BY IdleKept
<1>2. WayOK(c)'
    <2>1. CASE AppCall(c) \/ AppStep(c)
        BY <2>1, WayCreate, WayDeprecate, WayScan, WayMark, WayEnqueue, WayPostFlip, WayFree, WayGoesOn
    <2>2. CASE FlipStep(c) \/ Signal(c)
        BY <2>2, WayFlipTake, WayHand, WayFlips
    <2> QED
        BY <2>1, <2>2 DEF ChainStep
<1> QED
    BY <1>1, <1>2 DEF FlowOK, WayOK

\* Every step keeps the images on their way apart.
LEMMA FNext == ASSUME TInv, FInv, [Next]_vars PROVE FInv'
<1>1. ASSUME NEW c \in Chain, ChainStep(c) PROVE FInv'
    <2> SUFFICES ASSUME NEW d \in Chain PROVE FlowOK(d)'
        BY DEF FInv
    <2>1. CASE d = c
        BY <1>1, <2>1, FlowKept DEF FInv
    <2>2. CASE d # c
        BY <1>1, <2>2, FlowElsewhere
    <2> QED
        BY <2>1, <2>2
<1>2. ASSUME UNCHANGED <<imageVars, ringVars, flipSem, flagVars, appVars, flipVars>>
      PROVE  FInv'
    <2> SUFFICES ASSUME NEW c \in Chain PROVE FlowOK(c)'
        BY DEF FInv
    <2>1. FlowOK(c)
        BY DEF FInv
    <2>2. IdleOK(c)'
        BY <1>2, <2>1 DEF FlowOK, IdleOK, Alive, Images
    <2>3. SameFlow(c)
        BY <1>2 DEF SameFlow, Current
    <2> QED
        BY <2>1, <2>2, <2>3, SameWay DEF FlowOK, WayOK
<1> QED
    BY <1>1, <1>2, Steps DEF SpuriousWakeup

\* There are as many images in the ring as entries.
LEMMA EntriesCount ==
    ASSUME TInv, NEW c \in Chain, RingOK(c)
    PROVE  IsFiniteSet(Entries(c)) /\ Cardinality(Entries(c)) = InRing(c)
<1> DEFINE m == InRing(c)
           f == [n \in 0 .. m - 1 |-> Slot(c, n)]
<1>1. m \in Nat
    BY Entry
<1>2. f \in Surjection(0 .. m - 1, Entries(c))
    BY DEF Surjection, Entries
<1>3. f \in Injection(0 .. m - 1, Entries(c))
    BY DEF Injection, IsInjective, Entries, RingOK
<1> HIDE DEF f, m
<1>4. IsFiniteSet(0 .. m - 1) /\ Cardinality(0 .. m - 1) = m
    BY <1>1, FS_Interval
<1>5. IsFiniteSet(Entries(c)) /\ Cardinality(Entries(c)) = Cardinality(0 .. m - 1)
    BY <1>2, <1>3, <1>4, FS_Surjection
<1> QED
    BY <1>4, <1>5 DEF m

\* What the invariant says of the ring.
LEMMA RingSound == TInv /\ FInv => RingAgrees
<1> SUFFICES ASSUME TInv, FInv, NEW c \in Chain, app[c] \notin {"none", "gone"}
             PROVE  /\ (head[c] + InRing(c)) % ImageCount[c] = tail[c]
                    /\ Cardinality(Entries(c)) = InRing(c)
                    /\ HasImage(c) => hand[c] \notin Entries(c)
                    /\ \A i \in Entries(c) :
                         i \notin held[c] /\ (Current(c) => status[c][i] = "PENDING")
    BY DEF RingAgrees
<1>1. RingOK(c)
    BY DEF FInv, FlowOK
<1>3. Cardinality(Entries(c)) = InRing(c)
    BY <1>1, EntriesCount
<1> QED
    BY <1>1, <1>3 DEF RingOK, Entries, InQueue, Queued

\* The ring of pending images needs no lock: whatever the application, the condition
\* variables and the device do, head, tail and the semaphore agree, no entry is
\* overwritten, and none is the image of anyone else.
THEOREM RingNeedsNoLock == Spec => []RingAgrees
<1>1. Init => TInv /\ FInv
    BY TInit, FInit
<1>2. TInv /\ FInv /\ [Next]_vars => TInv' /\ FInv'
    BY TNext, FNext
<1>3. TInv /\ FInv => RingAgrees
    BY RingSound
<1> QED
    BY <1>1, <1>2, <1>3, PTL DEF Spec

-----------------------------------------------------------------------------
(* A swapchain and its descendant.                                         *)

\* An image becomes PENDING when the application marks it, and stays so until the page
\* flip thread has shown it or the swapchain is destroyed.
LEMMA Pends ==
    ASSUME TInv, FInv, NEW c \in Chain, ChainStep(c), NEW d \in Chain, NEW i \in Images(d)
    PROVE  /\ status'[d][i] = "PENDING" => status[d][i] = "PENDING" \/ (Mark(c) /\ d = c)
           /\ status[d][i] = "PENDING" =>
                status'[d][i] = "PENDING" \/ (d = c /\ (Free(c) \/ FlipShow(c) \/ FlipRelease(c)))
<1>1. TypeThreads /\ TypeImages /\ ShapeOK
    BY DEF TInv, TypeOK
<1>2. \/ UNCHANGED status
      \/ Create(c) \/ Deprecate(c) \/ AcquireScan(c) \/ Mark(c) \/ Free(c)
      \/ FlipLook(c) \/ FlipShow(c) \/ FlipRelease(c)
    BY Changes DEF Submit, Signal
<1>3. ASSUME NEW e \in Chain, NEW j \in Images(e), NEW v \in {"INVALID", "ACQUIRED", "FREE"},
             SetStatus(e, j, v), status[e][j] # "PENDING"
      PROVE  status'[d][i] = "PENDING" <=> status[d][i] = "PENDING"
    <2>1. status'[e][j] = v /\ \A l \in Images(e) : l # j => status'[e][l] = status[e][l]
        BY <1>3, OneImage
    <2>2. d # e => status'[d] = status[d]
        BY <1>1, <1>3, StatusChange DEF SetStatus
    <2> QED
        BY <1>3, <2>1, <2>2
<1>4. CASE Create(c)
    <2>1. \A j \in Images(c) : status[c][j] = "INVALID" /\ status'[c][j] = "FREE"
        BY <1>1, <1>4 DEF Create, Set, ShapeOK, FInv, FlowOK, IdleOK, Alive
    <2>2. d # c => status'[d] = status[d]
        BY <1>1, <1>4 DEF Create, Set, ShapeOK
    <2> QED
        BY <2>1, <2>2
<1>5. CASE Deprecate(c)
    <2>1. c - 1 \in Chain /\ k[c] \in Images(c - 1)
        BY <1>5, Sizes DEF Deprecate, TInv, LinksOK, LinkOK, TypeOK, TypeThreads, Images
    <2> QED
        BY <1>3, <1>5, <2>1 DEF Deprecate, Release
<1>6. CASE AcquireScan(c)
    <2>1. k[c] \in Images(c)
        BY <1>1, <1>6, Sizes DEF AcquireScan, TypeThreads, Images
    <2> QED
        BY <1>3, <1>6, <2>1 DEF AcquireScan
<1>7. CASE Mark(c)
    <2>1. img[c] \in Images(c) /\ status[c][img[c]] \in {"ACQUIRED", "INVALID"}
        BY <1>1, <1>7 DEF Mark, TypeThreads, FInv, FlowOK, IdleOK, HeldOK, Acquired
    <2>2. \A j \in Images(c) : j # img[c] => status'[c][j] = status[c][j]
        BY <1>7, <2>1, OneImage DEF Mark
    <2>3. d # c => status'[d] = status[d]
        BY <1>1, <1>7, <2>1, StatusChange DEF Mark, SetStatus
    <2> QED
        BY <1>7, <2>1, <2>2, <2>3
<1>8. CASE Free(c)
    <2>1. \A j \in Images(c) : status'[c][j] = "INVALID"
        BY <1>1, <1>8 DEF Free, Set, ShapeOK
    <2>2. d # c => status'[d] = status[d]
        BY <1>1, <1>8 DEF Free, Set, ShapeOK
    <2> QED
        BY <1>8, <2>1, <2>2
<1>9. CASE FlipLook(c)
    BY <1>1, <1>3, <1>9 DEF FlipLook, Release, TypeThreads
<1>10. CASE FlipShow(c) \/ FlipRelease(c)
    <2>1. UNCHANGED status \/ \E v \in {"INVALID", "FREE"} : SetStatus(c, hand[c], v)
        BY <1>10 DEF FlipShow, FlipRelease, Release
    <2>2. hand[c] \in Images(c)
        BY <1>1 DEF TypeThreads
    <2>3. CASE \E v \in {"INVALID", "FREE"} : SetStatus(c, hand[c], v)
        <3>1. status'[c][hand[c]] # "PENDING" /\ \A l \in Images(c) : l # hand[c] => status'[c][l] = status[c][l]
            BY <2>2, <2>3, OneImage
        <3>2. d # c => status'[d] = status[d]
            BY <1>1, <2>2, <2>3, StatusChange DEF SetStatus
        <3> QED
            BY <1>10, <3>1, <3>2
    <2> QED
        BY <2>1, <2>3
<1> QED
    BY <1>2, <1>4, <1>5, <1>6, <1>7, <1>8, <1>9, <1>10

\* No swapchain has a neighbour at the beginning.
LEMMA NInit == Init => NInv
<1> SUFFICES ASSUME Init PROVE NInv
    OBVIOUS
<1>1. \A c \in Chain : /\ app[c] = "none" /\ flip[c] = "none" /\ startSem[c] = 0
    BY DEF Init
<1>2. Lone
    BY <1>1 DEF Lone, Resting
<1> QED
    BY <1>1, <1>2 DEF NInv, NeighbourOK, Alive

\* With one thread one call is going on at a time.
LEMMA LoneKept ==
    ASSUME OneThread, TInv, Lone, NEW c \in Chain, ChainStep(c)
    PROVE  Lone'
<1>1. TypeThreads
    BY DEF TInv, TypeOK
<1>2. AppCall(c) => \A d \in Chain : d # c => app[d] \in Resting
    BY DEF AppCall, Create, Acquire, Present, Destroy, Unused
<1>3. app'[c] \notin Resting => app[c] \notin Resting \/ AppCall(c)
    BY <1>1 DEF TypeThreads, Resting, GoApp, GoFlip, Set, Return, ChainStep, AppStep, FlipStep, Signal, Deprecate,
        Deprecated, AcquireTake, AcquireSleep, AcquireNothing, AcquireCheck, AcquireScan,
        AcquireLost, Look, Looked, Submit, SubmitFails, Mark, Enqueue, PostFlip, StartWait,
        DrainCount, DrainTake, DrainSleep, DrainDone, Free, Sleep, FlipTake, FlipFence, FlipFails,
        FlipLook, FlipFirst, FlipDrain, FlipDrainSleep, FlipBegin, FlipShow, FlipRelease, FlipPost
<1>4. \A d \in Chain : d # c => app'[d] = app[d]
    BY Places
<1>5. app'[c] \notin Resting => \A d \in Chain : d # c => app'[d] \in Resting
    BY <1>2, <1>3, <1>4 DEF Lone
<1> QED
    BY <1>4, <1>5 DEF Lone

\* Only Free ends a chain, and only Create begins one.
LEMMA Lives ==
    ASSUME TInv, NEW c \in Chain, ChainStep(c), NEW d \in Chain
    PROVE  /\ Alive(d) => Alive(d)' \/ (Free(c) /\ d = c)
           /\ Alive(d)' => Alive(d) \/ (Create(c) /\ d = c)
           /\ Free(c) => app[c] = "idling" /\ app'[c] = "gone"
<1>1. TypeThreads
    BY DEF TInv, TypeOK
<1>2. d # c => app'[d] = app[d]
    BY Places
<1>3. Free(c) => app[c] = "idling" /\ app'[c] = "gone"
    BY <1>1 DEF Free, GoApp, Set, TypeThreads
<1>4. app'[c] = "gone" => app[c] = "gone" \/ Free(c)
    BY <1>1 DEF TypeThreads, GoApp, GoFlip, Set, Return, ChainStep, AppCall, AppStep, FlipStep, Signal,
        Create, Acquire, Present, Destroy, Deprecate,
        Deprecated, AcquireTake, AcquireSleep, AcquireNothing, AcquireCheck, AcquireScan,
        AcquireLost, Look, Looked, Submit, SubmitFails, Mark, Enqueue, PostFlip, StartWait,
        DrainCount, DrainTake, DrainSleep, DrainDone, Sleep, FlipTake, FlipFence, FlipFails,
        FlipLook, FlipFirst, FlipDrain, FlipDrainSleep, FlipBegin, FlipShow, FlipRelease, FlipPost
<1>5. app[c] = "gone" => app'[c] = "gone"
    BY <1>1 DEF TypeThreads, GoApp, GoFlip, Set, Return, ChainStep, AppCall, AppStep, FlipStep, Signal,
        Create, Acquire, Present, Destroy, Deprecate, Unused,
        Deprecated, AcquireTake, AcquireSleep, AcquireNothing, AcquireCheck, AcquireScan,
        AcquireLost, Look, Looked, Submit, SubmitFails, Mark, Enqueue, PostFlip, StartWait,
        DrainCount, DrainTake, DrainSleep, DrainDone, Free, Sleep, FlipTake, FlipFence, FlipFails,
        FlipLook, FlipFirst, FlipDrain, FlipDrainSleep, FlipBegin, FlipShow, FlipRelease, FlipPost
<1>6. app[c] = "none" => Create(c) \/ app'[c] = "none"
    BY Places
<1>7. app'[c] = "none" => app[c] = "none"
    BY Places
<1> QED
    BY <1>2, <1>3, <1>4, <1>5, <1>6, <1>7 DEF Alive

\* A chain whose ancestor exists and is being destroyed is not at work itself.
LEMMA NeighbourRests ==
    ASSUME Lone, NEW c \in Chain, c - 1 \in Chain, app[c - 1] \notin Resting
    PROVE  app[c] \in Resting
BY Sizes DEF Lone

\* The parts of NeighbourOK, one by one.
LEMMA AncestorLives ==
    ASSUME TInv, FInv, NInv, NEW c \in Chain, ChainStep(c), NEW d \in Chain,
           Alive(d)', ancestor'[d] # NoChain
    PROVE  d - 1 \in Chain /\ Alive(d - 1)'
<1>1. TypeThreads /\ TypeChains /\ LinkOK(d) /\ NeighbourOK(d)
    BY DEF TInv, TypeOK, LinksOK, NInv
<1>2. CASE Create(c) /\ d = c
    <2>1. ancestor'[c] # NoChain => c > 1 /\ app[c - 1] = "idle"
        BY <1>1, <1>2 DEF Create, Set, TypeChains
    <2>2. d - 1 \in Chain /\ d - 1 # c /\ app[d - 1] = "idle"
        BY <1>2, <2>1, Sizes
    <2>3. app'[d - 1] = "idle"
        BY <2>2, Places
    <2> QED
        BY <2>2, <2>3 DEF Alive
<1>3. CASE ~(Create(c) /\ d = c)
    <2>1. Alive(d)
        BY <1>3, Lives
    <2>2. ancestor[d] # NoChain
        <3>1. UNCHANGED linkVars \/ Create(c) \/ Deprecated(c) \/ Free(c)
            BY Changes
        <3>2. CASE Create(c)
            BY <1>1, <1>3, <3>2 DEF Create, Set, TypeChains
        <3>3. CASE Free(c)
            BY <1>1, <3>3 DEF Free, TypeChains
        <3> QED
            BY <3>1, <3>2, <3>3 DEF Deprecated
    <2>3. d - 1 \in Chain /\ Alive(d - 1)
        BY <1>1, <2>1, <2>2 DEF NeighbourOK
    <2>4. ASSUME Free(c), d - 1 = c PROVE FALSE
        <3>1. app[c] = "idling"
            BY <2>4, Lives
        <3>2. app[d] \in Resting
            BY <2>3, <2>4, <3>1, NeighbourRests DEF NInv, Resting
        <3>3. descendant[d - 1] = d
            BY <1>1, <2>1, <2>3, <3>2 DEF NeighbourOK, Resting
        <3>4. ancestor'[d] = NoChain
            BY <1>1, <2>4, <3>3 DEF Free
        <3> QED
            BY <3>4
    <2> QED
        BY <2>3, <2>4, Lives
<1> QED
    BY <1>2, <1>3

\* An ancestor that is alive knows its descendant.
LEMMA DescendantKnown ==
    ASSUME TInv, FInv, NInv, NEW c \in Chain, ChainStep(c), NEW d \in Chain,
           d - 1 \in Chain, Alive(d - 1)', Alive(d)'
    PROVE  app'[d] = "deprecate" \/ descendant'[d - 1] = d
<1>1. TypeThreads /\ TypeChains /\ LinkOK(d) /\ NeighbourOK(d)
    BY DEF TInv, TypeOK, LinksOK, NInv
<1>2. CASE Create(c) /\ d = c
    <2>1. app[d - 1] \in {"idle", "gone"} /\ d > 1
        BY <1>2, Sizes DEF Create
    <2>2. app'[d - 1] = app[d - 1]
        BY <1>2, Places
    <2>3. app[d - 1] = "idle"
        BY <2>1, <2>2 DEF Alive
    <2> QED
        BY <1>1, <1>2, <2>1, <2>3 DEF Create, GoApp, Set, TypeThreads
<1>3. CASE Create(c) /\ d = c + 1
    <2>1. app[c] = "none" /\ Alive(d)
        <3>1. d # c /\ app[c] = "none"
            BY <1>3 DEF Create
        <3> QED
            BY <3>1, Lives
    <2>2. app[d] = "none"
        BY <1>3, <2>1 DEF TInv, LinksOK, LinkOK
    <2> QED
        BY <2>1, <2>2 DEF Alive
<1>4. CASE ~(Create(c) /\ d = c) /\ ~(Create(c) /\ d = c + 1)
    <2>1. Alive(d) /\ Alive(d - 1)
        <3>1. ~(Create(c) /\ d - 1 = c)
            BY <1>4
        <3> QED
            BY <1>4, <3>1, Lives
    <2>2. CASE app[d] = "deprecate"
        <3>1. CASE Deprecated(c) /\ d = c
            BY <1>1, <3>1 DEF Deprecated, Set, TypeChains
        <3>2. CASE ~(Deprecated(c) /\ d = c)
            <4>1. d = c => app'[d] = "deprecate"
                BY <1>1, <2>2, <3>2 DEF TypeThreads, GoApp, GoFlip, Set, Return, ChainStep, AppCall,
                    AppStep, FlipStep, Signal, Create, Acquire, Present, Destroy, Deprecate, Unused,
                    AcquireTake, AcquireSleep, AcquireNothing, AcquireCheck, AcquireScan,
                    AcquireLost, Look, Looked, Submit, SubmitFails, Mark, Enqueue, PostFlip, StartWait,
                    DrainCount, DrainTake, DrainSleep, DrainDone, Free, Sleep, FlipTake, FlipFence, FlipFails,
                    FlipLook, FlipFirst, FlipDrain, FlipDrainSleep, FlipBegin, FlipShow, FlipRelease, FlipPost
            <4> QED
                BY <2>2, <4>1, Places
        <3> QED
            BY <3>1, <3>2
    <2>3. CASE descendant[d - 1] = d
        <3>1. UNCHANGED linkVars \/ Create(c) \/ Deprecated(c) \/ Free(c)
            BY Changes
        <3>2. ASSUME Free(c), ancestor[c] = d - 1 PROVE FALSE
            <4>1. c = d
                BY <3>2 DEF TInv, LinksOK, LinkOK
            <4>2. app'[d] = "gone"
                BY <3>2, <4>1, Lives
            <4> QED
                BY <4>2 DEF Alive
        <3>3. CASE Free(c)
            BY <1>1, <2>3, <3>2, <3>3 DEF Free, TypeChains
        <3>4. CASE Deprecated(c)
            BY <1>1, <2>3, <3>4 DEF Deprecated, Set, TypeChains
        <3> QED
            BY <2>3, <3>1, <3>3, <3>4 DEF Create
    <2> QED
        BY <1>1, <2>1, <2>2, <2>3 DEF NeighbourOK
<1> QED
    BY <1>2, <1>3, <1>4

\* The first image that the page flip thread has taken is PENDING until it is shown.
LEMMA FirstImage ==
    ASSUME TInv, FInv, NInv, NEW c \in Chain, ChainStep(c), NEW d \in Chain,
           flip'[d] \in {"first", "drain", "begin"}
    PROVE  first'[d] /\ status'[d][hand'[d]] = "PENDING"
<1>1. TypeThreads /\ TypeChains /\ NeighbourOK(d) /\ FlowOK(d) /\ hand[d] \in Images(d)
    BY DEF TInv, TypeOK, NInv, FInv, TypeThreads
<1>2. CASE FlipLook(c) /\ d = c
    <2>1. flip[c] = "look" /\ first[c] /\ status[c][hand[c]] # "FREE" /\ UNCHANGED <<status, first, hand>>
        BY <1>1, <1>2 DEF FlipLook, GoFlip, Set, TypeThreads, TypeChains
    <2>2. status[c][hand[c]] \in {"PENDING", "FREE"}
        BY <1>1, <1>2, <2>1 DEF FlowOK, MovingOK, HasImage, InQueue, Queued
    <2> QED
        BY <1>2, <2>1, <2>2
<1>3. CASE ~(FlipLook(c) /\ d = c)
    <2>1. flip[d] \in {"first", "drain", "begin"} /\ (d = c => ~Free(c) /\ ~FlipShow(c) /\ ~FlipRelease(c) /\ ~FlipBegin(c))
        <3>1. UNCHANGED flip \/ Create(c) \/ Free(c) \/ FlipTake(c) \/ FlipFence(c) \/ FlipFails(c)
              \/ FlipLook(c) \/ FlipFirst(c) \/ FlipBegin(c) \/ FlipShow(c) \/ FlipRelease(c) \/ FlipPost(c)
            BY Changes
        <3>2. d # c => flip'[d] = flip[d]
            BY Places
        <3>3. d = c => ~Free(c) /\ ~FlipShow(c) /\ ~FlipRelease(c) /\ ~FlipBegin(c)
            BY <1>1 DEF Free, FlipShow, FlipRelease, FlipBegin, GoFlip, Set, TypeThreads
        <3>4. d = c => flip[d] \in {"first", "drain", "begin"}
            BY <1>1, <1>3, <3>1, <3>3 DEF Create, FlipTake, FlipFence, FlipFails, FlipFirst, FlipPost,
                GoFlip, Set, TypeThreads
        <3> QED
            BY <3>2, <3>3, <3>4
    <2>2. first[d] /\ status[d][hand[d]] = "PENDING"
        BY <1>1, <2>1 DEF NeighbourOK
    <2>3. hand'[d] = hand[d]
        <3>1. d = c => hand'[c] = hand[c]
            BY <2>1 DEF ChainStep, AppCall, AppStep, FlipStep, Signal, Create, Acquire, Present, Destroy, Deprecate,
                Deprecated, AcquireTake, AcquireSleep, AcquireNothing, AcquireCheck, AcquireScan,
                AcquireLost, Look, Looked, Submit, SubmitFails, Mark, Enqueue, PostFlip, StartWait,
                DrainCount, DrainTake, DrainSleep, DrainDone, Sleep, FlipTake, FlipFence, FlipFails,
                FlipLook, FlipFirst, FlipDrain, FlipDrainSleep, FlipPost
        <3>2. d # c => hand'[d] = hand[d]
            BY Elsewhere
        <3> QED
            BY <3>1, <3>2
    <2>4. first'[d] = first[d]
        <3>1. UNCHANGED flagVars \/ Create(c) \/ FlipFails(c) \/ FlipBegin(c) \/ Free(c)
            BY Changes
        <3>2. d = c => first'[d] = first[d]
            BY <2>1, <3>1 DEF Create, FlipFails
        <3>3. d # c => first'[d] = first[d]
            BY Elsewhere
        <3> QED
            BY <3>2, <3>3
    <2>5. status'[d][hand[d]] = "PENDING"
        BY <1>1, <2>1, <2>2, Pends
    <2> QED
        BY <2>2, <2>3, <2>4, <2>5
<1> QED
    BY <1>2, <1>3

\* The start semaphore is posted after the first image has been shown.
LEMMA StartPosted ==
    ASSUME TInv, NInv, NEW c \in Chain, ChainStep(c), NEW d \in Chain, startSem'[d] > 0
    PROVE  ~first'[d]
<1>1. TypeSemaphores /\ TypeChains /\ NeighbourOK(d)
    BY DEF TInv, TypeOK, NInv
<1>2. UNCHANGED startSem \/ StartWait(c) \/ FlipBegin(c) \/ Free(c)
    BY Changes
<1>3. UNCHANGED flagVars \/ Create(c) \/ FlipFails(c) \/ FlipBegin(c) \/ Free(c)
    BY Changes
<1>4. CASE (FlipBegin(c) \/ Free(c)) /\ d = c
    <2>1. CASE FlipBegin(c)
        BY <1>1, <1>4, <2>1 DEF FlipBegin, Set, TypeChains
    <2>2. CASE Free(c)
        <3>1. startSem'[c] = 0
            BY <1>1, <2>2 DEF Free, Set, TypeSemaphores
        <3> QED
            BY <1>4, <3>1
    <2> QED
        BY <1>4, <2>1, <2>2
<1>5. CASE ~((FlipBegin(c) \/ Free(c)) /\ d = c)
    <2>1. startSem[d] > 0
        <3>1. CASE StartWait(c)
            <4>1. c + 1 \in Chain
                BY <3>1 DEF StartWait, TInv, LinksOK, LinkOK, Current
            <4> QED
                BY <1>1, <3>1, <4>1 DEF StartWait, Set, TypeSemaphores
        <3>2. CASE ~StartWait(c)
            BY <1>1, <1>2, <1>5, <3>2 DEF FlipBegin, Free, Set, TypeSemaphores
        <3> QED
            BY <3>1, <3>2
    <2>2. first'[d] = first[d]
        BY <1>1, <1>3, <1>5 DEF Create, FlipFails, FlipBegin, Free, Set, TypeChains
    <2> QED
        BY <1>1, <2>1, <2>2 DEF NeighbourOK
<1> QED
    BY <1>4, <1>5

\* What Look has passed is not PENDING.
LEMMA LookedAt ==
    ASSUME TInv, FInv, NInv, NEW c \in Chain, ChainStep(c), NEW d \in Chain,
           d - 1 \in Chain, app'[d - 1] = "tearLook", ~started'[d - 1],
           NEW i \in Images(d), i < k'[d - 1]
    PROVE  status'[d][i] # "PENDING"
<1>1. TypeThreads /\ NeighbourOK(d) /\ Lone
    BY DEF TInv, TypeOK, NInv
<1>2. CASE c = d - 1
    <2>1. d # c /\ c + 1 = d
        BY <1>2
    <2>2. CASE Destroy(c)
        <3>1. k'[c] = 0
            BY <2>2 DEF Destroy, Unused, FInv, FlowOK, IdleOK
        <3> QED
            BY <1>2, <3>1, Sizes DEF Images
    <2>3. CASE Look(c)
        <3>1. app[c] = "tearLook" /\ ~started[c] /\ k'[c] = k[c] + 1 /\ status[d][k[c]] # "PENDING"
            BY <1>1, <1>2, <2>1, <2>3 DEF Look, Set, TypeThreads
        <3>2. status[d][i] # "PENDING"
            <4>1. i < k[c] \/ i = k[c]
                BY <1>1, <1>2, <3>1, Sizes DEF TypeThreads, Images
            <4> QED
                BY <1>1, <1>2, <3>1, <4>1 DEF NeighbourOK
        <3> QED
            BY <2>3, <3>2 DEF Look
    <2>4. CASE ~Destroy(c) /\ ~Look(c)
        <3>1. app[c] = "tearLook" /\ UNCHANGED <<started, k>>
            BY <1>1, <1>2, <2>4 DEF TypeThreads, GoApp, GoFlip, Set, Return, ChainStep, AppCall, AppStep,
                FlipStep, Signal, Create, Acquire, Present, Deprecate,
                Deprecated, AcquireTake, AcquireSleep, AcquireNothing, AcquireCheck, AcquireScan,
                AcquireLost, Looked, Submit, SubmitFails, Mark, Enqueue, PostFlip, StartWait,
                DrainCount, DrainTake, DrainSleep, DrainDone, Free, Sleep, FlipTake, FlipFence, FlipFails,
                FlipLook, FlipFirst, FlipDrain, FlipDrainSleep, FlipBegin, FlipShow, FlipRelease, FlipPost
        <3>2. status[d][i] # "PENDING"
            BY <1>1, <1>2, <3>1 DEF NeighbourOK
        <3> QED
            BY <2>1, <3>2, Pends
    <2> QED
        BY <2>2, <2>3, <2>4
<1>3. CASE c # d - 1
    <2>1. app[d - 1] = "tearLook" /\ ~started[d - 1] /\ i < k[d - 1]
        BY <1>3, Elsewhere
    <2>2. status[d][i] # "PENDING"
        BY <1>1, <2>1 DEF NeighbourOK
    <2>3. app[d] \in Resting
        BY <1>1, <2>1, NeighbourRests DEF Resting
    <2>4. ~(Mark(c) /\ d = c)
        BY <2>3 DEF Mark, Resting
    <2> QED
        BY <2>2, <2>4, Pends
<1> QED
    BY <1>2, <1>3

\* While the ancestor is destroyed nothing of the descendant will wait for it.
LEMMA QuietKept ==
    ASSUME OneThread, TInv, FInv, NInv, NEW c \in Chain, ChainStep(c), NEW d \in Chain,
           d - 1 \in Chain, app'[d - 1] \in {"count", "drain", "idling"}
    PROVE  Quiet(d)'
<1>1. TypeThreads /\ TypeChains /\ NeighbourOK(d) /\ Lone /\ FlowOK(d)
    BY DEF TInv, TypeOK, NInv, FInv
<1>2. CASE c = d - 1
    <2>1. d # c /\ c + 1 = d
        BY <1>2
    <2>2. first'[d] = first[d] /\ ((\A i \in Images(d) : status[d][i] # "PENDING") =>
                                    \A i \in Images(d) : status'[d][i] # "PENDING")
        <3>1. first'[d] = first[d]
            BY <2>1, Elsewhere
        <3>2. \A i \in Images(d) : status[d][i] # "PENDING" => status'[d][i] # "PENDING"
            BY <2>1, Pends
        <3> QED
            BY <3>1, <3>2
    <2>3. Quiet(d) => Quiet(d)'
        BY <2>2 DEF Quiet, Images
    <2>4. CASE Destroy(c)
        <3>1. descendant[c] = NoChain /\ app[c] = "idle" /\ app[d] # "deprecate"
            BY <1>1, <1>2, <2>4 DEF Destroy, GoApp, Set, TypeThreads, Unused
        <3>2. ~Alive(d)
            <4>1. descendant[c] # d
                BY <3>1
            <4> QED
                BY <1>1, <1>2, <3>1, <4>1 DEF NeighbourOK, Alive
        <3>3. \A i \in Images(d) : status[d][i] = "INVALID"
            BY <1>1, <3>2 DEF FlowOK, IdleOK
        <3> QED
            BY <2>3, <3>3 DEF Quiet
    <2>5. CASE Looked(c)
        <3>1. app[c] = "tearLook" /\ ~started[c] /\ k[c] = ImageCount[d]
            BY <1>1, <1>2, <2>1, <2>5 DEF Looked, GoApp, Set, TypeThreads
        <3>2. \A i \in Images(d) : status[d][i] # "PENDING"
            BY <1>1, <1>2, <3>1, Sizes DEF NeighbourOK, Images
        <3> QED
            BY <2>3, <3>2 DEF Quiet
    <2>6. CASE StartWait(c)
        <3>1. startSem[d] > 0
            BY <2>1, <2>6 DEF StartWait
        <3> QED
            BY <1>1, <2>3, <3>1 DEF NeighbourOK, Quiet
    <2>7. CASE ~Destroy(c) /\ ~Looked(c) /\ ~StartWait(c)
        <3>1. app[c] \in {"count", "drain", "idling"}
            BY <1>1, <1>2, <2>7 DEF TypeThreads, GoApp, GoFlip, Set, Return, ChainStep, AppCall, AppStep,
                FlipStep, Signal, Create, Acquire, Present, Deprecate,
                Deprecated, AcquireTake, AcquireSleep, AcquireNothing, AcquireCheck, AcquireScan,
                AcquireLost, Look, Submit, SubmitFails, Mark, Enqueue, PostFlip,
                DrainCount, DrainTake, DrainSleep, DrainDone, Free, Sleep, FlipTake, FlipFence, FlipFails,
                FlipLook, FlipFirst, FlipDrain, FlipDrainSleep, FlipBegin, FlipShow, FlipRelease, FlipPost
        <3> QED
            BY <1>1, <1>2, <2>3, <3>1 DEF NeighbourOK
    <2> QED
        BY <2>4, <2>5, <2>6, <2>7
<1>3. CASE c # d - 1
    <2>1. app[d - 1] \in {"count", "drain", "idling"}
        BY <1>3, Elsewhere
    <2>2. Quiet(d) /\ app[d] \in Resting
        BY <1>1, <2>1, NeighbourRests DEF Resting, NeighbourOK
    <2>3. ~(Mark(c) /\ d = c) /\ ~(Free(c) /\ d = c)
        BY <2>2 DEF Mark, Free, Resting
    <2>4. first'[d] => first[d]
        <3>1. UNCHANGED flagVars \/ Create(c) \/ FlipFails(c) \/ FlipBegin(c) \/ Free(c)
            BY Changes
        <3>2. d = c => (first'[d] => first[d])
            BY <1>1, <2>3, <3>1 DEF Create, FlipFails, FlipBegin, Set, TypeChains
        <3>3. d # c => first'[d] = first[d]
            BY Elsewhere
        <3> QED
            BY <3>2, <3>3
    <2>5. \A i \in Images(d) : status[d][i] # "PENDING" => status'[d][i] # "PENDING"
        BY <2>3, Pends
    <2> QED
        BY <2>2, <2>4, <2>5 DEF Quiet, Images
<1> QED
    BY <1>2, <1>3

\* The ancestor is not forgotten while it is waited for.
LEMMA DrainsAncestor ==
    ASSUME TInv, FInv, NInv, NEW c \in Chain, ChainStep(c), NEW d \in Chain, flip'[d] = "drain"
    PROVE  ancestor'[d] # NoChain
<1>1. TypeThreads /\ TypeChains /\ NeighbourOK(d) /\ LinkOK(d) /\ FlowOK(d) /\ LinkOK(c)
    BY DEF TInv, TypeOK, NInv, FInv, LinksOK
<1>2. UNCHANGED linkVars \/ Create(c) \/ Deprecated(c) \/ Free(c)
    BY Changes
<1>3. CASE FlipFirst(c) /\ d = c
    BY <1>1, <1>3 DEF FlipFirst, GoFlip, Set, TypeThreads
<1>4. CASE ~(FlipFirst(c) /\ d = c)
    <2>1. flip[d] = "drain"
        <3>1. UNCHANGED flip \/ Create(c) \/ Free(c) \/ FlipTake(c) \/ FlipFence(c) \/ FlipFails(c)
              \/ FlipLook(c) \/ FlipFirst(c) \/ FlipBegin(c) \/ FlipShow(c) \/ FlipRelease(c) \/ FlipPost(c)
            BY Changes
        <3>2. d = c => flip[d] = "drain"
            BY <1>1, <1>4, <3>1 DEF Create, Free, FlipTake, FlipFence, FlipFails, FlipLook, FlipBegin,
                FlipShow, FlipRelease, FlipPost, GoFlip, Set, TypeThreads
        <3>3. d # c => flip'[d] = flip[d]
            BY Places
        <3> QED
            BY <3>2, <3>3
    <2>2. ancestor[d] # NoChain /\ Alive(d) /\ d - 1 \in Chain
        BY <1>1, <2>1 DEF NeighbourOK, LinkOK, FlowOK, IdleOK, Alive
    <2>3. ASSUME Free(c), d = descendant[c] PROVE FALSE
        <3>1. d - 1 = c
            BY <1>1, <2>3 DEF LinkOK
        <3>2. app[c] = "idling"
            BY <2>3 DEF Free
        <3>3. first[d] /\ status[d][hand[d]] = "PENDING" /\ hand[d] \in Images(d)
            BY <1>1, <2>1 DEF NeighbourOK, TypeThreads
        <3> QED
            BY <1>1, <3>1, <3>2, <3>3 DEF NeighbourOK, Quiet
    <2>4. CASE Create(c)
        <3>1. d # c
            BY <2>2, <2>4 DEF Create, Alive
        <3> QED
            BY <1>1, <2>2, <2>4, <3>1 DEF Create, Set, TypeChains
    <2>5. CASE Free(c)
        BY <1>1, <2>2, <2>3, <2>5 DEF Free, TypeChains
    <2> QED
        BY <1>2, <2>2, <2>4, <2>5 DEF Deprecated
<1> QED
    BY <1>3, <1>4

\* Every step of one thread keeps what neighbours know of each other.
LEMMA NNext == ASSUME OneThread, TInv, FInv, NInv, [Next]_vars PROVE NInv'
<1>1. ASSUME NEW c \in Chain, ChainStep(c) PROVE NInv'
    <2>1. Lone'
        BY <1>1, LoneKept DEF NInv
    <2>2. ASSUME NEW d \in Chain PROVE NeighbourOK(d)'
        <3>1. Alive(d)' /\ ancestor'[d] # NoChain => d - 1 \in Chain /\ Alive(d - 1)'
            BY <1>1, AncestorLives
        <3>2. d - 1 \in Chain /\ Alive(d - 1)' /\ Alive(d)' =>
                 app'[d] = "deprecate" \/ descendant'[d - 1] = d
            BY <1>1, DescendantKnown
        <3>3. flip'[d] \in {"first", "drain", "begin"} =>
                 first'[d] /\ status'[d][hand'[d]] = "PENDING"
            BY <1>1, FirstImage
        <3>4. flip'[d] = "drain" => ancestor'[d] # NoChain
            BY <1>1, DrainsAncestor
        <3>5. startSem'[d] > 0 => ~first'[d]
            BY <1>1, StartPosted
        <3>6. d - 1 \in Chain /\ app'[d - 1] = "tearLook" /\ ~started'[d - 1] =>
                 \A i \in Images(d) : i < k'[d - 1] => status'[d][i] # "PENDING"
            BY <1>1, LookedAt
        <3>7. d - 1 \in Chain /\ app'[d - 1] \in {"count", "drain", "idling"} => Quiet(d)'
            BY <1>1, QuietKept
        <3> QED
            BY <3>1, <3>2, <3>3, <3>4, <3>5, <3>6, <3>7 DEF NeighbourOK, Images
    <2> QED
        BY <2>1, <2>2 DEF NInv
<1>2. ASSUME UNCHANGED <<imageVars, startSem, flagVars, linkVars, appVars, flipVars>> PROVE NInv'
    <2>1. Lone'
        BY <1>2 DEF NInv, Lone
    <2>2. ASSUME NEW d \in Chain PROVE NeighbourOK(d)'
        BY <1>2 DEF NInv, NeighbourOK, Alive, Quiet, Images
    <2> QED
        BY <2>1, <2>2 DEF NInv
<1> QED
    BY <1>1, <1>2, Steps DEF SpuriousWakeup

\* Whoever is waited for is there.
LEMMA DrainedLives == ASSUME TInv, FInv, NInv PROVE AncestorAlive
<1> SUFFICES ASSUME NEW c \in Chain, flip[c] = "drain" PROVE app[c - 1] # "gone"
    BY DEF AncestorAlive
<1>1. ancestor[c] # NoChain
    BY DEF NInv, NeighbourOK
<1>2. Alive(c)
    BY DEF FInv, FlowOK, IdleOK, Alive
<1> QED
    BY <1>1, <1>2 DEF NInv, NeighbourOK, Alive

\* While the page flip thread of a new swapchain waits for the pending images of its
\* ancestor the ancestor exists, if the application has one thread.
THEOREM AncestorOutlivesWait == OneThread => (Spec => []AncestorAlive)
<1> SUFFICES ASSUME OneThread PROVE Spec => []AncestorAlive
    OBVIOUS
<1>1. Init => TInv /\ FInv /\ NInv
    BY TInit, FInit, NInit
<1>2. TInv /\ FInv /\ NInv /\ [Next]_vars => TInv' /\ FInv' /\ NInv'
    BY TNext, FNext, NNext
<1>3. TInv /\ FInv /\ NInv => AncestorAlive
    BY DrainedLives
<1> QED
    BY <1>1, <1>2, <1>3, PTL DEF Spec

-----------------------------------------------------------------------------
(* The count of the semaphore.                                             *)

SInv == WInv /\ CInv

\* Nobody sleeps at the beginning, and every count is full.
LEMMA SInit == Init => SInv
<1> SUFFICES ASSUME Init PROVE SInv
    OBVIOUS
<1>1. WInv
    BY DEF Init, WInv, SleeperOK
<1>2. ASSUME NEW c \in Chain PROVE CountOK(c)
    <2>1. ImageCount[c] \in Nat
        BY Sizes
    <2>2. freeCount[c] = ImageCount[c] /\ held[c] = {} /\ app[c] = "none" /\ flip[c] = "none" /\ flipSem[c] = 0
        BY DEF Init
    <2>3. Cardinality(held[c]) = 0
        BY <2>2, FS_EmptySet
    <2> QED
        BY <2>1, <2>2, <2>3 DEF CountOK, Tokens, Taken, Marked, InRing, InHand, HasImage
<1> QED
    BY <1>1, <1>2 DEF SInv, CInv

\* The application and the page flip thread of the descendant never take from the same
\* semaphore at once.
LEMMA Exclusive ==
    ASSUME TInv, FInv, NInv, NEW s \in Chain, s + 1 \in Chain,
           app[s] \in {"acquire", "drain", "idling"}, flip[s + 1] = "drain"
    PROVE  FALSE
<1> DEFINE d == s + 1
<1>1. d \in Chain /\ d - 1 = s
    BY Sizes
<1>2. FlowOK(s) /\ FlowOK(d) /\ NeighbourOK(d)
    BY <1>1 DEF FInv, NInv
<1>3. app[d] # "none"
    BY <1>1, <1>2 DEF FlowOK, IdleOK
<1>4. app[s] # "acquire"
    BY <1>1, <1>2, <1>3 DEF FlowOK, IdleOK
<1>5. Quiet(d) /\ first[d] /\ status[d][hand[d]] = "PENDING"
    BY <1>1, <1>2, <1>4 DEF NeighbourOK
<1>6. hand[d] \in Images(d)
    BY <1>1 DEF TInv, TypeOK, TypeThreads
<1> QED
    BY <1>5, <1>6 DEF Quiet

\* The chain whose semaphore a page flip thread waits for.
LEMMA Awaited ==
    ASSUME TInv, FInv, NInv, NEW c \in Chain, flip[c] = "drain"
    PROVE  c - 1 \in Chain /\ c - 1 # c /\ Alive(c - 1)
<1>1. ancestor[c] # NoChain /\ Alive(c) /\ NeighbourOK(c)
    BY DEF NInv, NeighbourOK, FInv, FlowOK, IdleOK, Alive
<1> QED
    BY <1>1, Sizes DEF NeighbourOK

\* Who takes from the semaphore finds something in it, even when woken.
LEMMA TakesOne ==
    ASSUME TInv, SInv, NEW t \in Thread, SemOf(t) \in Chain, Take(t)
    PROVE  /\ freeCount[SemOf(t)] > 0
           /\ freeCount'[SemOf(t)] = freeCount[SemOf(t)] - 1
           /\ \A d \in Chain : d # SemOf(t) => freeCount'[d] = freeCount[d]
           /\ wait'[t] = "awake"
           /\ \A u \in Thread : u # t => wait'[u] = wait[u]
<1> DEFINE s == SemOf(t)
<1>1. freeCount \in [Chain -> 0 .. CountModulus - 1] /\ wait \in [Thread -> {"awake", "asleep", "woken"}]
    BY DEF TInv, TypeOK, TypeSemaphores
<1>2. freeCount[s] > 0
    BY DEF Take, CanTake, SInv, WInv, SleeperOK
<1>3. freeCount' = [freeCount EXCEPT ![s] = Decrement(freeCount[s])] /\ wait' = [wait EXCEPT ![t] = "awake"]
    BY DEF Take, Set
<1> HIDE DEF s
<1>4. Decrement(freeCount[s]) = freeCount[s] - 1
    <2>1. freeCount[s] - 1 \in 0 .. CountModulus - 1 /\ CountModulus \in Nat
        BY <1>1, <1>2, Sizes DEF s
    <2>2. \A a \in Nat, m \in Nat : a < m => a % m = a
        OBVIOUS
    <2> QED
        BY <2>1, <2>2 DEF Decrement
<1> QED
    BY <1>1, <1>2, <1>3, <1>4 DEF s

\* Who gives to it does not make the count begin again.
LEMMA GivesOne ==
    ASSUME TInv, SInv, NEW c \in Chain, FlipPost(c)
    PROVE  /\ freeCount'[c] = freeCount[c] + 1 /\ freeCount'[c] > 0
           /\ \A d \in Chain : d # c => freeCount'[d] = freeCount[d]
           /\ \A t \in Thread : wait'[t] = wait[t] \/ (wait[t] = "asleep" /\ SemOf(t) = c)
<1>1. TypeOK
    BY DEF TInv
<1>2. freeCount[c] \in Nat /\ flip[c] = "post" /\ CountModulus \in Nat /\ ImageCount[c] \in Nat
      /\ CountModulus > ImageCount[c] + 1
    BY <1>1, Sizes DEF FlipPost, TypeOK, TypeSemaphores
<1>3. freeCount[c] < ImageCount[c]
    <2>1. IsFiniteSet(held[c])
        <3>1. held[c] \subseteq 0 .. ImageCount[c] - 1
            BY <1>1 DEF TypeOK, TypeImages, Images
        <3>2. IsFiniteSet(0 .. ImageCount[c] - 1)
            BY FS_Interval, <1>2
        <3> QED
            BY <3>1, <3>2, FS_Subset
    <2>2. Cardinality(held[c]) \in Nat
        BY <2>1, FS_CardinalityType
    <2>3. InHand(c) = 1 /\ Taken(c) \in Nat /\ Marked(c) \in Nat /\ InRing(c) \in Nat
        BY <1>2, Entry DEF InHand, Taken, Marked
    <2>4. Tokens(c) <= ImageCount[c]
        BY DEF SInv, CInv, CountOK
    <2> QED
        BY <1>2, <2>2, <2>3, <2>4 DEF Tokens
<1>4. (freeCount[c] + 1) % CountModulus = freeCount[c] + 1
    <2>1. \A a \in Nat, m \in Nat : a < m => a % m = a
        OBVIOUS
    <2> QED
        BY <1>2, <1>3, <2>1
<1>5. freeCount' = [freeCount EXCEPT ![c] = (freeCount[c] + 1) % CountModulus]
    BY DEF FlipPost, Post
<1>6. freeCount \in [Chain -> 0 .. CountModulus - 1] /\ wait \in [Thread -> {"awake", "asleep", "woken"}]
    BY <1>1 DEF TypeOK, TypeSemaphores
<1>7. \A t \in Thread : wait'[t] = wait[t] \/ (wait[t] = "asleep" /\ SemOf(t) = c)
    BY <1>6 DEF FlipPost, Post, Set
<1> QED
    BY <1>2, <1>4, <1>5, <1>6, <1>7

\* The locals of a wait belong to its thread.
LEMMA LeftElsewhere ==
    ASSUME TInv, NEW c \in Chain, ChainStep(c), NEW d \in Chain, d # c
    PROVE  left'[App(d)] = left[App(d)] /\ left'[Flip(d)] = left[Flip(d)]
<1>1. left \in [Thread -> Int]
    BY DEF TInv, TypeOK, TypeThreads
<1>2. App(c) \in Thread /\ Flip(c) \in Thread /\ App(d) \in Thread /\ Flip(d) \in Thread
    BY DEF App, Flip, Thread
<1>3. App(d) # App(c) /\ App(d) # Flip(c) /\ Flip(d) # App(c) /\ Flip(d) # Flip(c)
    BY DEF App, Flip
<1> QED
    BY <1>1, <1>2, <1>3 DEF ChainStep, AppCall, AppStep, FlipStep, Signal, Create, Acquire, Present, Destroy,
        Deprecate, Deprecated, AcquireTake, AcquireSleep, AcquireNothing, AcquireCheck, AcquireScan,
        AcquireLost, Look, Looked, Submit, SubmitFails, Mark, Enqueue, PostFlip, StartWait,
        DrainCount, DrainTake, DrainSleep, DrainDone, Free, Sleep, FlipTake, FlipFence, FlipFails,
        FlipLook, FlipFirst, FlipDrain, FlipDrainSleep, FlipBegin, FlipShow, FlipRelease, FlipPost, Set

\* The places where a thread of chain c may sleep.
Waiting(c) == app[c] = "acquire" \/ (app[c] = "drain" /\ left[App(c)] > 0)
FlipWaiting(c) == flip[c] = "drain" /\ left[Flip(c)] > 0

\* The two threads of a swapchain, and whose semaphore each waits for.
LEMMA Sleepers ==
    ASSUME NEW c \in Chain
    PROVE  /\ App(c) \in Thread /\ Flip(c) \in Thread /\ App(c) # Flip(c)
           /\ SemOf(App(c)) = c /\ SemOf(Flip(c)) = c - 1
           /\ SleeperOK(App(c)) <=> /\ wait[App(c)] # "awake" => Waiting(c)
                                    /\ wait[App(c)] = "woken" => freeCount[c] > 0
           /\ SleeperOK(Flip(c)) <=> /\ wait[Flip(c)] # "awake" => FlipWaiting(c)
                                     /\ wait[Flip(c)] = "woken" => freeCount[c - 1] > 0
BY DEF App, Flip, Thread, SemOf, SleeperOK, Waiting, FlipWaiting

\* There are no other threads.
LEMMA Threads ==
    ASSUME NEW t \in Thread
    PROVE  \E c \in Chain : t = App(c) \/ t = Flip(c)
BY DEF Thread, App, Flip

\* Which steps put a thread to sleep or wake it up.
LEMMA Waits ==
    ASSUME TInv, NEW c \in Chain, ChainStep(c), NEW t \in Thread,
           wait'[t] # "awake"
    PROVE  \/ wait'[t] = wait[t] /\ ~((AcquireTake(c) \/ AcquireNothing(c) \/ DrainTake(c)) /\ t = App(c))
                                 /\ ~((FlipDrain(c) \/ Free(c)) /\ t = Flip(c))
           \/ (AcquireSleep(c) \/ DrainSleep(c)) /\ t = App(c) /\ wait'[t] = "asleep"
           \/ FlipDrainSleep(c) /\ t = Flip(c) /\ wait'[t] = "asleep"
           \/ FlipPost(c) /\ wait[t] = "asleep" /\ SemOf(t) = c
<1>1. wait \in [Thread -> {"awake", "asleep", "woken"}] /\ App(c) \in Thread /\ Flip(c) \in Thread
    BY Sleepers DEF TInv, TypeOK, TypeSemaphores
<1>2. CASE AcquireTake(c) \/ DrainTake(c)
    BY <1>1, <1>2 DEF AcquireTake, DrainTake, Take, Set, Free, FlipDrain, AcquireNothing
<1>3. CASE AcquireSleep(c) \/ DrainSleep(c)
    BY <1>1, <1>3 DEF AcquireSleep, DrainSleep, Sleep, Set, FlipDrain, Free, Take, AcquireTake, DrainTake,
        AcquireNothing
<1>4. CASE AcquireNothing(c)
    BY <1>1, <1>4 DEF AcquireNothing, Set, FlipDrain, Free, AcquireTake, DrainTake, Take
<1>5. CASE FlipDrain(c)
    BY <1>1, <1>5 DEF FlipDrain, Take, Set, Free, AcquireTake, DrainTake, AcquireNothing
<1>6. CASE FlipDrainSleep(c)
    BY <1>1, <1>6 DEF FlipDrainSleep, Sleep, Set, FlipDrain, Free, Take, AcquireTake, DrainTake, AcquireNothing
<1>7. CASE FlipPost(c)
    <2>1. wait'[t] = wait[t] \/ (wait[t] = "asleep" /\ SemOf(t) = c)
        BY <1>1, <1>7 DEF FlipPost, Post, Set
    <2>2. ~AcquireTake(c) /\ ~AcquireNothing(c) /\ ~DrainTake(c) /\ ~FlipDrain(c) /\ ~Free(c)
        BY <1>7 DEF FlipPost, AcquireTake, AcquireNothing, DrainTake, FlipDrain, Free, flipVars, appVars,
            GoApp, GoFlip, Set, TInv, TypeOK, TypeThreads
    <2> QED
        BY <1>7, <2>1, <2>2
<1>8. CASE Free(c)
    BY <1>1, <1>8 DEF Free, Set, FlipDrain, AcquireTake, DrainTake, AcquireNothing
<1>9. UNCHANGED wait \/ AcquireTake(c) \/ AcquireSleep(c) \/ AcquireNothing(c) \/ DrainTake(c)
      \/ DrainSleep(c) \/ FlipDrain(c) \/ FlipDrainSleep(c) \/ FlipPost(c) \/ Free(c)
    BY Changes
<1> QED
    BY <1>2, <1>3, <1>4, <1>5, <1>6, <1>7, <1>8, <1>9

\* A thread that waits stays where it waits.
LEMMA WaitingKept ==
    ASSUME TInv, FInv, NInv, SInv, NEW c \in Chain, ChainStep(c), NEW d \in Chain
    PROVE  /\ wait'[App(d)] # "awake" => Waiting(d)'
           /\ wait'[Flip(d)] # "awake" => FlipWaiting(d)'
<1>1. TypeThreads
    BY DEF TInv, TypeOK
<1>2. /\ wait[App(d)] # "awake" => Waiting(d)
      /\ wait[Flip(d)] # "awake" => FlipWaiting(d)
    BY Sleepers DEF SInv, WInv
<1>3. App(d) \in Thread /\ Flip(d) \in Thread /\ App(d) # Flip(d)
    BY Sleepers
<1>4. App(d) # Flip(c) /\ Flip(d) # App(c) /\ (App(d) = App(c) => d = c) /\ (Flip(d) = Flip(c) => d = c)
    BY DEF App, Flip
<1>5. ASSUME wait'[App(d)] # "awake" PROVE Waiting(d)'
    <2>1. CASE wait[App(d)] # "awake" /\ d # c
        <3>1. app'[d] = app[d] /\ left'[App(d)] = left[App(d)]
            BY <2>1, Places, LeftElsewhere
        <3> QED
            BY <1>2, <2>1, <3>1 DEF Waiting, App
    <2>2. CASE wait[App(d)] # "awake" /\ d = c
        <3>1. ~AcquireTake(c) /\ ~AcquireNothing(c) /\ ~DrainTake(c)
            <4>1. AcquireTake(c) \/ AcquireNothing(c) \/ DrainTake(c) => wait'[App(c)] = "awake"
                BY <1>3, <2>2 DEF AcquireTake, AcquireNothing, DrainTake, Take, Set, TInv, TypeOK, TypeSemaphores
            <4> QED
                BY <1>5, <2>2, <4>1
        <3>2. Waiting(c)
            BY <1>2, <2>2
        <3>3. left[App(c)] \in Int /\ App(c) # Flip(c)
            BY <1>1, <1>3, <2>2 DEF TypeThreads
        <3>4. ~AppCall(c)
            BY <3>2 DEF Waiting, AppCall, Create, Acquire, Present, Destroy, Unused
        <3>5. AppStep(c) => AcquireSleep(c) \/ DrainSleep(c)
            <4>1. ~Free(c) /\ ~DrainDone(c) /\ ~DrainCount(c)
                <5>1. app[c] \in {"acquire", "drain"} /\ ~(app[c] = "drain" /\ left[App(c)] <= 0)
                    BY <3>2, <3>3 DEF Waiting
                <5> QED
                    BY <5>1 DEF Free, DrainDone, DrainCount
            <4> QED
                BY <3>1, <3>2, <4>1 DEF Waiting, AppStep, Deprecate, Deprecated, AcquireCheck, AcquireScan,
                    AcquireLost, Look, Looked, Submit, SubmitFails, Mark, Enqueue, PostFlip, StartWait
        <3>6. app'[c] = app[c]
            BY <3>4, <3>5 DEF ChainStep, FlipStep, Signal, AcquireSleep, DrainSleep, Sleep, FlipTake,
                FlipFence, FlipFails, FlipLook, FlipFirst, FlipDrain, FlipDrainSleep, FlipBegin,
                FlipShow, FlipRelease, FlipPost
        <3>7. left'[App(c)] = left[App(c)]
            <4>1. UNCHANGED left \/ FlipFirst(c) \/ FlipDrain(c)
                BY <3>4, <3>5 DEF ChainStep, FlipStep, Signal, AcquireSleep, DrainSleep, Sleep, FlipTake,
                    FlipFence, FlipFails, FlipLook, FlipDrainSleep, FlipBegin,
                    FlipShow, FlipRelease, FlipPost
            <4> QED
                BY <1>1, <3>3, <4>1 DEF FlipFirst, FlipDrain, Set, TypeThreads, App, Flip, Thread
        <3> QED
            BY <2>2, <3>2, <3>6, <3>7 DEF Waiting, App
    <2>3. CASE wait[App(d)] = "awake"
        <3>1. d = c /\ (AcquireSleep(c) \/ DrainSleep(c))
            BY <1>3, <1>4, <1>5, <2>3, Waits
        <3> QED
            BY <3>1 DEF AcquireSleep, DrainSleep, Sleep, Waiting, App
    <2> QED
        BY <2>1, <2>2, <2>3
<1>6. ASSUME wait'[Flip(d)] # "awake" PROVE FlipWaiting(d)'
    <2>1. CASE wait[Flip(d)] # "awake" /\ d # c
        <3>1. flip'[d] = flip[d] /\ left'[Flip(d)] = left[Flip(d)]
            BY <2>1, Places, LeftElsewhere
        <3> QED
            BY <1>2, <2>1, <3>1 DEF FlipWaiting, Flip
    <2>2. CASE wait[Flip(d)] # "awake" /\ d = c
        <3>1. ~FlipDrain(c) /\ ~Free(c)
            <4>1. FlipDrain(c) \/ Free(c) => wait'[Flip(c)] = "awake"
                BY <1>3, <2>2 DEF FlipDrain, Free, Take, Set, TInv, TypeOK, TypeSemaphores
            <4> QED
                BY <1>6, <2>2, <4>1
        <3>2. FlipWaiting(c)
            BY <1>2, <2>2
        <3>3. left[Flip(c)] \in Int /\ App(c) # Flip(c)
            BY <1>1, <1>3, <2>2 DEF TypeThreads
        <3>4. FlipStep(c) => FlipDrainSleep(c)
            <4>2. flip[c] = "drain" /\ ~(left[Flip(c)] <= 0)
                BY <3>2, <3>3 DEF FlipWaiting
            <4>1. ~FlipBegin(c)
                BY <4>2 DEF FlipBegin
            <4> QED
                BY <3>1, <3>2, <4>1 DEF FlipWaiting, FlipStep, FlipTake, FlipFence, FlipFails,
                    FlipLook, FlipFirst, FlipShow, FlipRelease, FlipPost
        <3>5. ~Create(c)
            BY <3>2 DEF Create, FlipWaiting, FInv, FlowOK, IdleOK
        <3>6. flip'[c] = flip[c]
            <4>1. FlipTake(c) \/ FlipFence(c) \/ FlipFails(c) \/ FlipLook(c) \/ FlipFirst(c) \/ FlipBegin(c)
                    \/ FlipShow(c) \/ FlipRelease(c) \/ FlipPost(c) => FlipStep(c)
                BY DEF FlipStep
            <4>2. UNCHANGED flip \/ Create(c) \/ Free(c) \/ FlipStep(c)
                BY <4>1, Changes
            <4> QED
                BY <3>1, <3>4, <3>5, <4>2 DEF FlipDrainSleep, Sleep
        <3>7. left'[Flip(c)] = left[Flip(c)]
            <4>1. UNCHANGED left \/ DrainCount(c) \/ DrainTake(c)
                BY <3>1, <3>4, <3>5 DEF ChainStep, AppCall, AppStep, Signal, Acquire, Present, Destroy, Deprecate,
                    Deprecated, AcquireTake, AcquireSleep, AcquireNothing, AcquireCheck, AcquireScan,
                    AcquireLost, Look, Looked, Submit, SubmitFails, Mark, Enqueue, PostFlip, StartWait,
                    DrainSleep, DrainDone, Sleep, FlipDrainSleep
            <4> QED
                BY <1>1, <3>3, <4>1 DEF DrainCount, DrainTake, Set, TypeThreads, App, Flip, Thread
        <3> QED
            BY <2>2, <3>2, <3>6, <3>7 DEF FlipWaiting, Flip
    <2>3. CASE wait[Flip(d)] = "awake"
        <3>1. d = c /\ FlipDrainSleep(c)
            BY <1>3, <1>4, <1>6, <2>3, Waits
        <3> QED
            BY <3>1 DEF FlipDrainSleep, Sleep, FlipWaiting, Flip
    <2> QED
        BY <2>1, <2>2, <2>3
<1> QED
    BY <1>5, <1>6

\* The count of a semaphore is changed by those who wait for it and by its own page flip
\* thread.
LEMMA Counts ==
    ASSUME TInv, FInv, NInv, SInv, NEW c \in Chain, ChainStep(c), NEW d \in Chain
    PROVE  \/ freeCount'[d] = freeCount[d]
           \/ (AcquireTake(c) \/ DrainTake(c)) /\ d = c /\ freeCount'[d] = freeCount[d] - 1
           \/ FlipDrain(c) /\ d = c - 1 /\ freeCount'[d] = freeCount[d] - 1
           \/ FlipPost(c) /\ d = c /\ freeCount'[d] = freeCount[d] + 1 /\ freeCount'[d] > 0
           \/ Free(c) /\ d = c /\ freeCount'[d] = 0
<1>1. freeCount \in [Chain -> 0 .. CountModulus - 1]
    BY DEF TInv, TypeOK, TypeSemaphores
<1>2. UNCHANGED freeCount \/ AcquireTake(c) \/ DrainTake(c) \/ FlipDrain(c) \/ FlipPost(c) \/ Free(c)
    BY Changes
<1>3. App(c) \in Thread /\ Flip(c) \in Thread /\ SemOf(App(c)) = c /\ SemOf(Flip(c)) = c - 1
    BY Sleepers
<1>4. CASE AcquireTake(c) \/ DrainTake(c)
    <2>1. Take(App(c))
        BY <1>4 DEF AcquireTake, DrainTake
    <2> QED
        BY <1>3, <1>4, <2>1, TakesOne
<1>5. CASE FlipDrain(c)
    <2>1. Take(Flip(c)) /\ c - 1 \in Chain
        BY <1>5, Awaited DEF FlipDrain
    <2> QED
        BY <1>3, <1>5, <2>1, TakesOne
<1>6. CASE FlipPost(c)
    BY <1>6, GivesOne
<1>7. CASE Free(c)
    BY <1>1, <1>7 DEF Free, Set
<1> QED
    BY <1>2, <1>4, <1>5, <1>6, <1>7

\* Who has been woken finds something in the semaphore.
LEMMA WokenKept ==
    ASSUME TInv, FInv, NInv, SInv, NEW c \in Chain, ChainStep(c), NEW d \in Chain
    PROVE  /\ wait'[App(d)] = "woken" => freeCount'[d] > 0
           /\ wait'[Flip(d)] = "woken" => freeCount'[d - 1] > 0
<1>1. /\ wait[App(d)] # "awake" => Waiting(d)
      /\ wait[Flip(d)] # "awake" => FlipWaiting(d)
      /\ wait[App(d)] = "woken" => freeCount[d] > 0
      /\ wait[Flip(d)] = "woken" => freeCount[d - 1] > 0
    BY Sleepers DEF SInv, WInv
<1>2. App(d) \in Thread /\ Flip(d) \in Thread /\ SemOf(App(d)) = d /\ SemOf(Flip(d)) = d - 1
    BY Sleepers
<1>4. App(d) # Flip(c) /\ Flip(d) # App(c) /\ (App(d) = App(c) => d = c) /\ (Flip(d) = Flip(c) => d = c)
    BY DEF App, Flip
<1>5. ASSUME wait'[App(d)] = "woken" PROVE freeCount'[d] > 0
    <2>1. CASE FlipPost(c) /\ d = c
        BY <2>1, GivesOne
    <2>2. CASE ~(FlipPost(c) /\ d = c)
        <3>1. wait[App(d)] = "woken" /\ ~((AcquireTake(c) \/ DrainTake(c)) /\ d = c)
            BY <1>2, <1>4, <1>5, <2>2, Waits
        <3>2. Waiting(d) /\ freeCount[d] > 0
            BY <1>1, <3>1
        <3>3. ~(FlipDrain(c) /\ d = c - 1)
            <4> SUFFICES ASSUME FlipDrain(c), d = c - 1 PROVE FALSE
                OBVIOUS
            <4>1. d + 1 = c /\ flip[c] = "drain"
                BY DEF FlipDrain
            <4> QED
                BY <3>2, <4>1, Exclusive DEF Waiting
        <3>4. ~(Free(c) /\ d = c)
            BY <3>2 DEF Free, Waiting
        <3>5. freeCount'[d] = freeCount[d]
            BY <2>2, <3>1, <3>3, <3>4, Counts
        <3> QED
            BY <3>2, <3>5
    <2> QED
        BY <2>1, <2>2
<1>6. ASSUME wait'[Flip(d)] = "woken" PROVE freeCount'[d - 1] > 0
    <2>1. CASE FlipPost(c) /\ d - 1 = c
        BY <2>1, GivesOne
    <2>2. CASE ~(FlipPost(c) /\ d - 1 = c)
        <3>1. wait[Flip(d)] = "woken" /\ ~(FlipDrain(c) /\ d = c)
            BY <1>2, <1>4, <1>6, <2>2, Waits
        <3>2. FlipWaiting(d) /\ freeCount[d - 1] > 0
            BY <1>1, <3>1
        <3>3. d - 1 \in Chain /\ flip[d] = "drain" /\ (d - 1) + 1 = d
            BY <3>2, Awaited DEF FlipWaiting
        <3>4. ~((AcquireTake(c) \/ DrainTake(c) \/ Free(c)) /\ d - 1 = c)
            <4> SUFFICES ASSUME AcquireTake(c) \/ DrainTake(c) \/ Free(c), d - 1 = c PROVE FALSE
                OBVIOUS
            <4>1. app[c] \in {"acquire", "drain", "idling"}
                BY DEF AcquireTake, DrainTake, Free
            <4>2. c + 1 = d
                BY <3>3
            <4> QED
                BY <3>3, <4>1, <4>2, Exclusive
        <3>5. ~(FlipDrain(c) /\ d - 1 = c - 1)
            BY <3>1
        <3>6. freeCount'[d - 1] = freeCount[d - 1]
            BY <2>2, <3>3, <3>4, <3>5, Counts
        <3> QED
            BY <3>2, <3>6
    <2> QED
        BY <2>1, <2>2
<1> QED
    BY <1>5, <1>6

\* Every step leaves a woken thread its count.
LEMMA WNext == ASSUME TInv, FInv, NInv, SInv, NEW c \in Chain, ChainStep(c) PROVE WInv'
<1> SUFFICES ASSUME NEW t \in Thread PROVE SleeperOK(t)'
    BY DEF WInv, Thread
<1>1. PICK d \in Chain : t = App(d) \/ t = Flip(d)
    BY Threads
<1>2. /\ wait'[App(d)] # "awake" => Waiting(d)'
      /\ wait'[Flip(d)] # "awake" => FlipWaiting(d)'
    BY WaitingKept
<1>3. /\ wait'[App(d)] = "woken" => freeCount'[d] > 0
      /\ wait'[Flip(d)] = "woken" => freeCount'[d - 1] > 0
    BY WokenKept
<1> QED
    BY <1>1, <1>2, <1>3 DEF SleeperOK, App, Flip, SemOf, Waiting, FlipWaiting

\* The parts that Tokens adds up are numbers.
LEMMA Parts ==
    ASSUME TInv, NEW c \in Chain
    PROVE  /\ freeCount[c] \in Nat /\ ImageCount[c] \in Nat /\ IsFiniteSet(held[c])
           /\ Cardinality(held[c]) \in Nat
           /\ Taken(c) \in Nat /\ Marked(c) \in Nat /\ InRing(c) \in Nat /\ InHand(c) \in Nat
<1>1. ImageCount[c] \in Nat /\ freeCount[c] \in Nat /\ held[c] \subseteq 0 .. ImageCount[c] - 1
    BY Sizes DEF TInv, TypeOK, TypeSemaphores, TypeImages, Images
<1>2. IsFiniteSet(held[c])
    <2>1. 0 \in Int /\ ImageCount[c] - 1 \in Int
        BY <1>1
    <2>2. IsFiniteSet(0 .. ImageCount[c] - 1)
        BY <2>1, FS_Interval
    <2> QED
        BY <1>1, <2>2, FS_Subset
<1>3. Cardinality(held[c]) \in Nat
    BY <1>2, FS_CardinalityType
<1> QED
    BY <1>1, <1>2, <1>3, Entry DEF Taken, Marked, InHand

\* The count and the images that are out, when neither is more than before.
NoMore(c) ==
    /\ freeCount'[c] + Taken(c)' <= freeCount[c] + Taken(c)
    /\ held'[c] = held[c] /\ Marked(c)' <= Marked(c)
    /\ InRing(c)' + InHand(c)' <= InRing(c) + InHand(c)
    /\ app'[c] = "none" => app[c] = "none" /\ freeCount'[c] = freeCount[c]

\* A step that frees nothing keeps the bound of the count.
LEMMA CountNoMore ==
    ASSUME TInv, TInv', NEW c \in Chain, CountOK(c), NoMore(c)
    PROVE  CountOK(c)'
<1>1. /\ freeCount[c] \in Nat /\ ImageCount[c] \in Nat /\ Cardinality(held[c]) \in Nat
      /\ Taken(c) \in Nat /\ Marked(c) \in Nat /\ InRing(c) \in Nat /\ InHand(c) \in Nat
    BY Parts
<1>2. /\ freeCount'[c] \in Nat
      /\ Taken(c)' \in Nat /\ Marked(c)' \in Nat /\ InRing(c)' \in Nat /\ InHand(c)' \in Nat
    <2>1. freeCount'[c] \in Nat
        BY DEF TInv, TypeOK, TypeSemaphores
    <2>2. flipSem'[c] \in Nat
        BY DEF TInv, TypeOK, TypeSemaphores
    <2> QED
        BY <2>1, <2>2 DEF Taken, Marked, InRing, InHand
<1>3. Cardinality(held[c])' = Cardinality(held[c])
    BY DEF NoMore
<1>4. Tokens(c)' <= Tokens(c)
    BY <1>1, <1>2, <1>3 DEF NoMore, Tokens
<1>5. Tokens(c) \in Int /\ Tokens(c)' \in Int /\ Tokens(c) <= ImageCount[c]
    BY <1>1, <1>2, <1>3 DEF Tokens, CountOK
<1>6. Tokens(c)' <= ImageCount[c]
    BY <1>1, <1>4, <1>5
<1> QED
    BY <1>6 DEF CountOK, NoMore

\* A step of chain c gives no other chain anything back.
LEMMA CountElsewhere ==
    ASSUME TInv, TInv', FInv, NInv, SInv, NEW c \in Chain, ChainStep(c), NEW d \in Chain, d # c
    PROVE  CountOK(d)'
<1>1. /\ held'[d] = held[d] /\ app'[d] = app[d] /\ flip'[d] = flip[d] /\ flipSem'[d] = flipSem[d]
    BY Elsewhere
<1>2. Taken(d)' = Taken(d) /\ Marked(d)' = Marked(d) /\ InRing(d)' = InRing(d) /\ InHand(d)' = InHand(d)
    BY <1>1 DEF Taken, Marked, InRing, InHand, HasImage
<1>3. Taken(d) \in Nat /\ Marked(d) \in Nat /\ InRing(d) \in Nat /\ InHand(d) \in Nat /\ freeCount[d] \in Nat
    BY Parts
<1>4. \/ freeCount'[d] = freeCount[d]
      \/ freeCount'[d] = freeCount[d] - 1 /\ FlipDrain(c) /\ d = c - 1
    BY Counts
<1>5. FlipDrain(c) /\ d = c - 1 => app[d] # "none"
    BY Awaited DEF FlipDrain, Alive
<1>6. NoMore(d)
    BY <1>1, <1>2, <1>3, <1>4, <1>5 DEF NoMore
<1> QED
    BY <1>6, CountNoMore DEF SInv, CInv

\* A step of chain c in which an image, or the right to one, goes from one place to the
\* next.
LEMMA CountMoves ==
    ASSUME TInv, TInv', FInv, SInv, NEW c \in Chain,
           Create(c) \/ AcquireScan(c) \/ Mark(c) \/ Enqueue(c) \/ PostFlip(c) \/ Free(c) \/ FlipTake(c)
    PROVE  CountOK(c)'
<1>1. TypeThreads /\ TypeSemaphores /\ ShapeOK /\ CountOK(c)
    BY DEF TInv, TypeOK, SInv, CInv
<1>2. /\ freeCount[c] \in Nat /\ ImageCount[c] \in Nat /\ IsFiniteSet(held[c]) /\ Cardinality(held[c]) \in Nat
      /\ Taken(c) \in Nat /\ Marked(c) \in Nat /\ InRing(c) \in Nat /\ InHand(c) \in Nat /\ flipSem[c] \in Nat
    BY <1>1, Parts DEF TypeSemaphores
<1>3. CASE Create(c)
    <2>1. /\ app[c] = "none" /\ app'[c] \in {"deprecate", "idle"} /\ flip'[c] = "sleep"
          /\ freeCount' = freeCount /\ held' = held /\ flipSem' = flipSem
        BY <1>1, <1>3 DEF Create, GoApp, GoFlip, Set, TypeThreads
    <2>2. freeCount[c] = ImageCount[c] /\ held[c] = {} /\ flipSem[c] = 0
        BY <1>1, <2>1 DEF CountOK, FInv, FlowOK, IdleOK
    <2>3. Cardinality(held[c])' = 0
        BY <2>1, <2>2, FS_EmptySet
    <2> QED
        BY <1>2, <2>1, <2>2, <2>3 DEF CountOK, Tokens, Taken, Marked, InRing, InHand, HasImage
<1>4. CASE AcquireScan(c)
    <2>1. app[c] = "scan" /\ freeCount' = freeCount /\ flip' = flip /\ flipSem' = flipSem /\ app'[c] \in {"scan", "idle"}
        BY <1>1, <1>4 DEF AcquireScan, Return, GoApp, Set, TypeThreads
    <2>2. CASE held' = held
        <3>1. NoMore(c)
            BY <1>2, <2>1, <2>2 DEF NoMore, Taken, Marked, InRing, InHand, HasImage
        <3> QED
            BY <1>1, <3>1, CountNoMore
    <2>3. CASE held' # held
        <3>1. held'[c] = held[c] \union {k[c]} /\ app'[c] = "idle"
            BY <1>1, <1>4, <2>3 DEF AcquireScan, Return, GoApp, Set, TypeThreads, ShapeOK
        <3>2. Cardinality(held[c] \union {k[c]}) <= Cardinality(held[c]) + 1
              /\ Cardinality(held[c] \union {k[c]}) \in Nat
            <4>1. IsFiniteSet(held[c] \union {k[c]})
                  /\ Cardinality(held[c] \union {k[c]})
                       = IF k[c] \in held[c] THEN Cardinality(held[c]) ELSE Cardinality(held[c]) + 1
                BY <1>2, FS_AddElement
            <4> QED
                BY <1>2, <4>1
        <3>3. Cardinality(held[c])' <= Cardinality(held[c]) + 1 /\ Cardinality(held[c])' \in Nat
            BY <3>1, <3>2
        <3> QED
            BY <1>1, <1>2, <2>1, <3>1, <3>3 DEF CountOK, Tokens, Taken, Marked, InRing, InHand, HasImage
    <2> QED
        BY <2>2, <2>3
<1>5. CASE Mark(c)
    <2>1. app[c] = "mark" /\ app'[c] = "enqueue" /\ freeCount' = freeCount /\ flip' = flip /\ flipSem' = flipSem
        BY <1>1, <1>5 DEF Mark, GoApp, Set, TypeThreads
    <2>2. held'[c] = held[c] \ {img[c]} /\ img[c] \in held[c]
        BY <1>1, <1>5, <2>1 DEF Mark, ShapeOK, FInv, FlowOK, IdleOK
    <2>3. Cardinality(held[c] \ {img[c]}) = Cardinality(held[c]) - 1
        BY <1>2, <2>2, FS_RemoveElement
    <2>4. Cardinality(held[c])' = Cardinality(held[c]) - 1
        BY <2>2, <2>3
    <2> QED
        BY <1>1, <1>2, <2>1, <2>4 DEF CountOK, Tokens, Taken, Marked, InRing, InHand, HasImage
<1>6. CASE Enqueue(c)
    <2>1. /\ app[c] = "enqueue" /\ app'[c] = "post" /\ freeCount' = freeCount /\ flip' = flip
          /\ flipSem' = flipSem /\ held' = held
        BY <1>1, <1>6 DEF Enqueue, GoApp, Set, TypeThreads
    <2>2. Cardinality(held[c])' = Cardinality(held[c])
        BY <2>1
    <2> QED
        BY <1>1, <1>2, <2>1, <2>2 DEF CountOK, Tokens, Taken, Marked, InRing, InHand, HasImage
<1>7. CASE PostFlip(c)
    <2>1. /\ app[c] = "post" /\ app'[c] = "idle" /\ freeCount' = freeCount /\ flip' = flip
          /\ flipSem'[c] = flipSem[c] + 1 /\ held' = held
        BY <1>1, <1>7 DEF PostFlip, Return, GoApp, Set, TypeThreads, TypeSemaphores
    <2>2. Cardinality(held[c])' = Cardinality(held[c])
        BY <2>1
    <2> QED
        BY <1>1, <1>2, <2>1, <2>2 DEF CountOK, Tokens, Taken, Marked, InRing, InHand, HasImage
<1>8. CASE Free(c)
    <2>1. app'[c] = "gone" /\ flip'[c] = "dead" /\ freeCount'[c] = 0 /\ flipSem'[c] = 0 /\ held'[c] = {}
        BY <1>1, <1>8 DEF Free, GoApp, GoFlip, Set, TypeThreads, TypeSemaphores, ShapeOK
    <2>2. Cardinality(held[c])' = 0
        BY <2>1, FS_EmptySet
    <2> QED
        BY <1>2, <2>1, <2>2 DEF CountOK, Tokens, Taken, Marked, InRing, InHand, HasImage
<1>9. CASE FlipTake(c)
    <2>1. /\ flip[c] = "sleep" /\ flip'[c] = "fence" /\ freeCount' = freeCount /\ app' = app
          /\ flipSem'[c] = flipSem[c] - 1 /\ held' = held
        BY <1>1, <1>9 DEF FlipTake, GoFlip, Set, TypeThreads, TypeSemaphores
    <2>2. Cardinality(held[c])' = Cardinality(held[c])
        BY <2>1
    <2> QED
        BY <1>1, <1>2, <2>1, <2>2 DEF CountOK, Tokens, Taken, Marked, InRing, InHand, HasImage
<1> QED
    BY <1>3, <1>4, <1>5, <1>6, <1>7, <1>8, <1>9

\* The other steps of chain c.
LEMMA CountRests ==
    ASSUME TInv, TInv', FInv, NInv, SInv, NEW c \in Chain, ChainStep(c),
           ~Create(c), ~AcquireScan(c), ~Mark(c), ~Enqueue(c), ~PostFlip(c), ~Free(c), ~FlipTake(c)
    PROVE  CountOK(c)'
<1>1. TypeThreads /\ TypeSemaphores /\ CountOK(c)
    BY DEF TInv, TypeOK, SInv, CInv
<1>2. /\ freeCount[c] \in Nat /\ Taken(c) \in Nat /\ Marked(c) \in Nat /\ InRing(c) \in Nat /\ InHand(c) \in Nat
    BY Parts
<1>3. held' = held
    BY Changes DEF Deprecate, Submit, FlipLook, FlipShow, FlipRelease, Signal
<1>4. flipSem' = flipSem
    BY Changes
<1>5. app'[c] = app[c] \/ app'[c] \notin {"enqueue", "post"}
    <2>1. FlipStep(c) \/ Signal(c) => app' = app
        BY DEF FlipStep, Signal, FlipTake, FlipFence, FlipFails, FlipLook, FlipFirst, FlipDrain, FlipDrainSleep,
            FlipBegin, FlipShow, FlipRelease, FlipPost, Sleep
    <2>2. AppCall(c) => app'[c] = app[c] \/ app'[c] \notin {"enqueue", "post"}
        BY <1>1 DEF TypeThreads, GoApp, Set, AppCall, Acquire, Present, Destroy
    <2>3. AppStep(c) => app'[c] = app[c] \/ app'[c] \notin {"enqueue", "post"}
        BY <1>1 DEF TypeThreads, GoApp, Set, Return, AppStep, Deprecate,
            Deprecated, AcquireTake, AcquireSleep, AcquireNothing, AcquireCheck,
            AcquireLost, Look, Looked, Submit, SubmitFails, StartWait,
            DrainCount, DrainTake, DrainSleep, DrainDone, Sleep
    <2> QED
        BY <2>1, <2>2, <2>3 DEF ChainStep
<1>6. Marked(c)' <= Marked(c) /\ InRing(c)' <= InRing(c)
    <2>1. flipSem[c] \in Nat /\ flipSem'[c] = flipSem[c]
        BY <1>1, <1>4 DEF TypeSemaphores
    <2>2. CASE app'[c] = app[c]
        BY <2>1, <2>2 DEF Marked, InRing
    <2>3. CASE app'[c] \notin {"enqueue", "post"}
        BY <2>1, <2>3 DEF Marked, InRing
    <2> QED
        BY <1>5, <2>2, <2>3
<1>7. app'[c] # "none" \/ (app[c] = "none" /\ ~AppStep(c))
    BY Places
<1>8. CASE FlipPost(c)
    <2>1. flip[c] = "post" /\ flip'[c] = "sleep" /\ app' = app
        BY <1>1, <1>8 DEF FlipPost, GoFlip, Set, TypeThreads
    <2>2. freeCount'[c] = freeCount[c] + 1
        BY <1>8, GivesOne
    <2>3. app[c] # "none"
        BY <2>1 DEF FInv, FlowOK, IdleOK
    <2>4. Cardinality(held[c])' = Cardinality(held[c]) /\ Cardinality(held[c]) \in Nat /\ ImageCount[c] \in Nat
        BY <1>3, Parts
    <2> QED
        BY <1>1, <1>2, <1>4, <2>1, <2>2, <2>3, <2>4
        DEF CountOK, Tokens, Taken, Marked, InRing, InHand, HasImage
<1>9. CASE ~FlipPost(c)
    <2>1. InHand(c)' <= InHand(c)
        <3>1. UNCHANGED flip \/ FlipFence(c) \/ FlipFails(c) \/ FlipLook(c) \/ FlipFirst(c)
              \/ FlipBegin(c) \/ FlipShow(c) \/ FlipRelease(c)
            BY <1>9, Changes
        <3>2. flip' = flip \/ InHand(c) = 1
            BY <3>1 DEF InHand, HasImage, FlipFence, FlipFails, FlipLook, FlipFirst,
                FlipBegin, FlipShow, FlipRelease
        <3>3. flip' = flip => InHand(c)' = InHand(c)
            BY DEF InHand, HasImage
        <3>4. InHand(c)' \in {0, 1}
            BY DEF InHand
        <3> QED
            BY <1>2, <3>2, <3>3, <3>4
    <2>2. freeCount'[c] + Taken(c)' <= freeCount[c] + Taken(c)
        <3>1. CASE AcquireTake(c)
            <4>1. app[c] = "acquire" /\ app'[c] = "taken"
                BY <1>1, <3>1 DEF AcquireTake, GoApp, Set, TypeThreads
            <4>2. Take(App(c)) /\ App(c) \in Thread /\ SemOf(App(c)) = c
                BY <3>1, Sleepers DEF AcquireTake
            <4>3. freeCount'[c] = freeCount[c] - 1
                BY <4>2, TakesOne
            <4> QED
                BY <1>2, <4>1, <4>3 DEF Taken
        <3>2. CASE ~AcquireTake(c)
            <4>1. freeCount'[c] = freeCount[c] \/ freeCount'[c] = freeCount[c] - 1
                BY <1>9, Counts
            <4>2. Taken(c)' <= Taken(c)
                <5>1. FlipStep(c) \/ Signal(c) => app' = app
                    BY DEF FlipStep, Signal, FlipTake, FlipFence, FlipFails, FlipLook, FlipFirst, FlipDrain,
                        FlipDrainSleep, FlipBegin, FlipShow, FlipRelease, FlipPost, Sleep
                <5>2. AppCall(c) => app'[c] \notin {"taken", "scan"}
                    BY <1>1 DEF TypeThreads, GoApp, Set, AppCall, Acquire, Present, Destroy
                <5>3. AppStep(c) => app[c] \in {"taken", "scan"} \/ app'[c] \notin {"taken", "scan"}
                    BY <1>1, <3>2 DEF TypeThreads, GoApp, Set, Return, AppStep, Deprecate,
                        Deprecated, AcquireSleep, AcquireNothing, AcquireCheck,
                        AcquireLost, Look, Looked, Submit, SubmitFails, StartWait,
                        DrainCount, DrainTake, DrainSleep, DrainDone, Sleep
                <5>4. app'[c] \in {"taken", "scan"} => app[c] \in {"taken", "scan"}
                    BY <5>1, <5>2, <5>3 DEF ChainStep
                <5> QED
                    BY <5>4 DEF Taken
            <4>3. Taken(c)' \in Nat
                BY DEF Taken
            <4> QED
                BY <1>2, <4>1, <4>2, <4>3
        <3> QED
            BY <3>1, <3>2
    <2>3. app'[c] = "none" => app[c] = "none" /\ freeCount'[c] = freeCount[c]
        <3>1. app[c] = "none" => ~AcquireTake(c) /\ ~DrainTake(c)
            BY DEF AcquireTake, DrainTake
        <3>2. ~(FlipDrain(c) /\ c = c - 1)
            BY Sizes
        <3> QED
            BY <1>7, <1>9, <3>1, <3>2, Counts
    <2>4. InHand(c)' \in Nat /\ InRing(c)' \in Nat
        <3>1. flipSem'[c] \in Nat
            BY <1>1, <1>4 DEF TypeSemaphores
        <3> QED
            BY <3>1 DEF InHand, InRing
    <2>5. NoMore(c)
        BY <1>2, <1>3, <1>6, <2>1, <2>2, <2>3, <2>4 DEF NoMore
    <2> QED
        BY <1>1, <2>5, CountNoMore
<1> QED
    BY <1>8, <1>9

\* Every step keeps the counts of the semaphores.
LEMMA SNext ==
    ASSUME ~SpuriousWakeups, TInv, FInv, NInv, SInv, [Next]_vars
    PROVE  SInv'
<1>1. TInv'
    BY TNext
<1>2. ASSUME NEW c \in Chain, ChainStep(c) PROVE SInv'
    <2>1. WInv'
        BY <1>2, WNext
    <2>2. ASSUME NEW d \in Chain PROVE CountOK(d)'
        <3>1. CASE d # c
            BY <1>1, <1>2, <3>1, CountElsewhere
        <3>2. CASE d = c
            BY <1>1, <1>2, <3>2, CountMoves, CountRests
        <3> QED
            BY <3>1, <3>2
    <2> QED
        BY <2>1, <2>2 DEF SInv, CInv
<1>3. CASE UNCHANGED vars
    BY <1>3 DEF SInv, WInv, CInv, SleeperOK, SemOf, CountOK, Tokens, Taken, Marked, InRing, InHand, HasImage,
        Thread
<1>4. \A t \in Thread : ~SpuriousWakeup(t)
    BY DEF SpuriousWakeup
<1> QED
    BY <1>2, <1>3, <1>4, Steps

\* What the semaphore counts has not left it.
LEMMA CountSound == ASSUME TInv, SInv PROVE CountNeverWraps
<1> SUFFICES ASSUME NEW c \in Chain PROVE freeCount[c] <= ImageCount[c]
    BY DEF CountNeverWraps
<1>1. Tokens(c) <= ImageCount[c]
    BY DEF SInv, CInv, CountOK
<1> QED
    BY <1>1, Parts DEF Tokens

\* The semaphore of the free images never counts more images than the swapchain has, and
\* nothing is taken from it when it is empty, although who has been woken does not look at
\* it again: if the application has one thread and no thread wakes up of itself.
THEOREM CountStays == OneThread /\ ~SpuriousWakeups => (Spec => []CountNeverWraps)
<1> SUFFICES ASSUME OneThread, ~SpuriousWakeups PROVE Spec => []CountNeverWraps
    OBVIOUS
<1>1. Init => TInv /\ FInv /\ NInv /\ SInv
    BY TInit, FInit, NInit, SInit
<1>2. TInv /\ FInv /\ NInv /\ SInv /\ [Next]_vars => TInv' /\ FInv' /\ NInv' /\ SInv'
    BY TNext, FNext, NNext, SNext
<1>3. TInv /\ SInv => CountNeverWraps
    BY CountSound
<1> QED
    BY <1>1, <1>2, <1>3, PTL DEF Spec

-----------------------------------------------------------------------------
(* The FREE image that an acquisition finds.                               *)

\* There are at most as many FREE images as images.
LEMMA FreeFinite ==
    ASSUME TInv, NEW c \in Chain
    PROVE  /\ IsFiniteSet(FreeImages(c)) /\ Cardinality(FreeImages(c)) \in Nat
           /\ Cardinality(FreeImages(c)) <= ImageCount[c] /\ ImageCount[c] \in Nat
<1>1. ImageCount[c] \in Nat
    BY Sizes
<1>5. ASSUME NEW m \in Nat PROVE IsFiniteSet(0 .. m - 1) /\ Cardinality(0 .. m - 1) = m
    BY FS_Interval
<1>2. IsFiniteSet(0 .. ImageCount[c] - 1) /\ Cardinality(0 .. ImageCount[c] - 1) = ImageCount[c]
    BY <1>1, <1>5
<1>3. FreeImages(c) \subseteq 0 .. ImageCount[c] - 1
    BY DEF FreeImages, Images
<1>4. IsFiniteSet(FreeImages(c)) /\ Cardinality(FreeImages(c)) <= Cardinality(0 .. ImageCount[c] - 1)
    BY <1>2, <1>3, FS_Subset
<1> QED
    BY <1>1, <1>2, <1>4, FS_CardinalityType

\* All images are FREE and counted at the beginning.
LEMMA AInit == Init => AInv
<1> SUFFICES ASSUME Init, NEW c \in Chain PROVE FreeOK(c)
    BY DEF AInv
<1>1. app[c] = "none" /\ freeCount[c] = ImageCount[c] /\ wait[App(c)] = "awake"
    BY Sleepers DEF Init
<1> QED
    BY <1>1 DEF FreeOK, Sound, Open, OpenPlaces

\* A chain that may be acquired from has been one before, or is new.
LEMMA OpenBefore ==
    ASSUME TInv, FInv, NEW c \in Chain, ChainStep(c), NEW d \in Chain, Open(d)'
    PROVE  (c # d + 1 \/ d + 1 \notin Chain \/ ~(Create(c) \/ FlipStep(c) \/ AppStep(c)))
           /\ (Open(d) \/ (Create(c) /\ d = c))
<1>1. TypeThreads
    BY DEF TInv, TypeOK
<1>2. d + 1 \in Chain => app[d + 1] = "none" /\ app'[d + 1] = "none"
    BY Places DEF Open
<1>3. d + 1 \in Chain /\ c = d + 1 => ~Create(c) /\ ~AppStep(c) /\ ~FlipStep(c)
    <2> SUFFICES ASSUME d + 1 \in Chain, c = d + 1 PROVE ~Create(c) /\ ~AppStep(c) /\ ~FlipStep(c)
        OBVIOUS
    <2>1. app[c] = "none" /\ app'[c] = "none"
        BY <1>2
    <2>2. ~Create(c)
        BY <1>1, <2>1 DEF Create, GoApp, Set, TypeThreads
    <2>3. ~AppStep(c)
        BY <2>1, <2>2, Places
    <2>4. flip[c] = "none"
        BY <2>1 DEF FInv, FlowOK, IdleOK
    <2> QED
        BY <2>2, <2>3, <2>4 DEF FlipStep, FlipTake, FlipFence, FlipFails, FlipLook, FlipFirst, FlipDrain,
            FlipDrainSleep, FlipBegin, FlipShow, FlipRelease, FlipPost
<1>4. CASE d # c
    BY <1>2, <1>3, <1>4, Places DEF Open
<1>5. CASE d = c
    <2>1. app'[c] \in OpenPlaces /\ Current(c)
        BY <1>2, <1>5 DEF Open, Current
    <2>2. FlipStep(c) \/ Signal(c) => app' = app
        BY DEF FlipStep, Signal, FlipTake, FlipFence, FlipFails, FlipLook, FlipFirst, FlipDrain, FlipDrainSleep,
            FlipBegin, FlipShow, FlipRelease, FlipPost, Sleep
    <2>3. AppCall(c) => app[c] = "idle" \/ Create(c)
        BY DEF AppCall, Acquire, Present, Destroy, Unused
    <2>4. app[c] # "presentLook" /\ app[c] # "tearLook"
        BY <2>1 DEF TInv, LinksOK, LinkOK
    <2>5. AppStep(c) => app[c] \in OpenPlaces
        BY <1>1, <2>1, <2>4 DEF OpenPlaces, TypeThreads, GoApp, Set, Return, AppStep, Deprecate,
            Deprecated, AcquireTake, AcquireSleep, AcquireNothing, AcquireCheck, AcquireScan,
            AcquireLost, Look, Looked, Submit, SubmitFails, Mark, Enqueue, PostFlip, StartWait,
            DrainCount, DrainTake, DrainSleep, DrainDone, Free, Sleep
    <2>6. Create(c) \/ app[c] \in OpenPlaces
        BY <2>1, <2>2, <2>3, <2>5 DEF ChainStep, OpenPlaces
    <2> QED
        BY <1>2, <1>3, <1>5, <2>6 DEF Open
<1> QED
    BY <1>4, <1>5

\* A swapchain that has failed stays so.
LEMMA SoundBefore ==
    ASSUME TInv, FInv, NEW c \in Chain, ChainStep(c), NEW d \in Chain, Sound(d)'
    PROVE  /\ Open(d)' /\ (Sound(d) \/ (Create(c) /\ d = c))
           /\ ~(FlipFails(c) /\ d = c)
<1>1. TypeChains
    BY DEF TInv, TypeOK
<1>2. UNCHANGED flagVars \/ Create(c) \/ FlipFails(c) \/ FlipBegin(c) \/ Free(c)
    BY Changes
<1>3. Open(d) \/ (Create(c) /\ d = c)
    BY OpenBefore DEF Sound
<1>4. valid'[d] /\ Open(d)'
    BY DEF Sound
<1>5. valid[d] \/ (Create(c) /\ d = c)
    BY <1>1, <1>2, <1>4 DEF Create, FlipFails, FlipBegin, Free, Set, TypeChains
<1>6. ~(FlipFails(c) /\ d = c)
    BY <1>1, <1>4 DEF FlipFails, Set, TypeChains
<1> QED
    BY <1>3, <1>4, <1>5, <1>6 DEF Sound

\* What is known of an image of such a chain.
LEMMA OpenImages ==
    ASSUME TInv, FInv, NEW c \in Chain, Open(c)
    PROVE  /\ Current(c) /\ ~started[c] /\ descendant[c] = NoChain
           /\ \A i \in held[c] : status[c][i] = "ACQUIRED"
           /\ HasImage(c) => status[c][hand[c]] = "PENDING"
<1>1. Current(c)
    BY DEF Open, Current
<1>2. ~started[c] /\ descendant[c] = NoChain
    BY <1>1 DEF TInv, LinksOK, LinkOK
<1>3. \A i \in held[c] : status[c][i] = "ACQUIRED"
    BY <1>1 DEF FInv, FlowOK, HeldOK, Acquired
<1>4. HasImage(c) => status[c][hand[c]] = "PENDING"
    BY <1>1 DEF FInv, FlowOK, MovingOK, InQueue, Queued
<1> QED
    BY <1>1, <1>2, <1>3, <1>4

\* The steps that make an image FREE, or one that was FREE something else.
LEMMA FreeChanges ==
    ASSUME TInv, FInv, NEW c \in Chain, ChainStep(c), Open(c), Open(c)'
    PROVE  \/ AcquireScan(c) /\ k[c] \in FreeImages(c) /\ app'[c] = "idle"
              /\ FreeImages(c)' = FreeImages(c) \ {k[c]}
           \/ FlipShow(c) /\ hand[c] \notin FreeImages(c)
              /\ FreeImages(c)' = FreeImages(c) \union {hand[c]}
           \/ FreeImages(c)' = FreeImages(c) /\ ~FlipShow(c) /\ (AcquireScan(c) => app'[c] = "scan")
<1>1. TypeThreads /\ TypeImages /\ ShapeOK
    BY DEF TInv, TypeOK
<1>2. /\ Current(c) /\ ~started[c] /\ descendant[c] = NoChain
      /\ \A i \in held[c] : status[c][i] = "ACQUIRED"
      /\ HasImage(c) => status[c][hand[c]] = "PENDING"
    BY OpenImages
<1>3. hand[c] \in Images(c) /\ img[c] \in Images(c)
    BY <1>1 DEF TypeThreads
<1>4. app[c] \notin {"none", "idling"} /\ app'[c] # "gone"
    <2>1. app[c] \in OpenPlaces /\ app'[c] \in OpenPlaces
        BY DEF Open
    <2> QED
        BY <2>1 DEF OpenPlaces
<1>5. ~Create(c) /\ ~Free(c)
    BY <1>4 DEF Create, Free
<1>6. CASE AcquireScan(c)
    <2>1. k[c] \in Images(c) /\ app[c] = "scan" /\ ~FlipShow(c)
        BY <1>1, <1>6, Sizes DEF AcquireScan, FlipShow, TypeThreads, Images, Return, GoApp, GoFlip, Set
    <2>2. CASE status[c][k[c]] = "FREE"
        <3>1. app'[c] = "idle" /\ SetStatus(c, k[c], "ACQUIRED")
            BY <1>1, <1>6, <2>2 DEF AcquireScan, Return, GoApp, Set, TypeThreads
        <3>2. status'[c][k[c]] = "ACQUIRED" /\ \A j \in Images(c) : j # k[c] => status'[c][j] = status[c][j]
            BY <2>1, <3>1, OneImage
        <3> QED
            BY <1>6, <2>1, <2>2, <3>1, <3>2 DEF FreeImages, Images
    <2>3. CASE status[c][k[c]] # "FREE"
        BY <1>6, <2>1, <2>3 DEF AcquireScan, FreeImages, Images
    <2> QED
        BY <2>2, <2>3
<1>7. CASE FlipShow(c)
    <2>1. SetStatus(c, hand[c], "FREE") /\ status[c][hand[c]] = "PENDING"
        BY <1>2, <1>7 DEF FlipShow, HasImage
    <2>2. status'[c][hand[c]] = "FREE" /\ \A j \in Images(c) : j # hand[c] => status'[c][j] = status[c][j]
        BY <1>3, <2>1, OneImage
    <2> QED
        BY <1>3, <1>7, <2>1, <2>2 DEF FreeImages, Images
<1>8. CASE Mark(c)
    <2>1. SetStatus(c, img[c], "PENDING") /\ status[c][img[c]] = "ACQUIRED"
        BY <1>2, <1>8 DEF Mark, FInv, FlowOK, IdleOK
    <2>2. status'[c][img[c]] = "PENDING" /\ \A j \in Images(c) : j # img[c] => status'[c][j] = status[c][j]
        BY <1>3, <2>1, OneImage
    <2>3. ~FlipShow(c) /\ ~AcquireScan(c)
        BY <1>8 DEF Mark, FlipShow, AcquireScan, GoApp, Set, TInv, TypeOK, TypeThreads
    <2> QED
        BY <2>1, <2>2, <2>3 DEF FreeImages, Images
<1>9. CASE ~AcquireScan(c) /\ ~FlipShow(c) /\ ~Mark(c)
    <2>1. status'[c] = status[c]
        <3>1. CASE Deprecate(c)
            <4>1. c - 1 \in Chain /\ c - 1 # c /\ k[c] \in Images(c - 1)
                BY <3>1, Sizes DEF Deprecate, TInv, LinksOK, LinkOK, TypeOK, TypeThreads, Images
            <4> QED
                BY <1>1, <3>1, <4>1, StatusChange DEF Deprecate, Release, SetStatus
        <3>2. FlipLook(c) \/ FlipRelease(c) => status' = status
            BY <1>2 DEF FlipLook, FlipRelease, HasImage
        <3> QED
            BY <1>5, <1>9, <3>1, <3>2, Changes DEF Submit, Signal
    <2> QED
        BY <1>9, <2>1 DEF FreeImages, Images
<1> QED
    BY <1>6, <1>7, <1>8, <1>9

\* What a thread does to the semaphore of its own chain.
LEMMA OwnTake ==
    ASSUME TInv, NEW c \in Chain, Sound(c), FreeOK(c), AcquireTake(c)
    PROVE  freeCount[c] > 0 /\ freeCount'[c] = freeCount[c] - 1 /\ wait'[App(c)] = "awake"
<1>1. App(c) \in Thread /\ SemOf(App(c)) = c /\ TypeSemaphores
    BY Sleepers DEF TInv, TypeOK
<1>2. freeCount[c] > 0
    BY <1>1 DEF AcquireTake, Take, CanTake, FreeOK
<1>3. Decrement(freeCount[c]) = freeCount[c] - 1
    <2>1. freeCount[c] \in 0 .. CountModulus - 1 /\ CountModulus \in Nat
        BY <1>1, Sizes DEF TypeSemaphores
    <2>2. \A a \in Nat, m \in Nat : a < m => a % m = a
        OBVIOUS
    <2> QED
        BY <1>2, <2>1, <2>2 DEF Decrement
<1> QED
    BY <1>1, <1>2, <1>3 DEF AcquireTake, Take, Set, TypeSemaphores

\* The post of a page flip thread does not let the count wrap.
LEMMA OwnPost ==
    ASSUME TInv, NEW c \in Chain, Sound(c), FreeOK(c), FlipPost(c)
    PROVE  freeCount'[c] = freeCount[c] + 1
<1>1. freeCount \in [Chain -> 0 .. CountModulus - 1] /\ CountModulus \in Nat
      /\ CountModulus > ImageCount[c] + 1 /\ freeCount[c] \in Nat
    BY Sizes DEF TInv, TypeOK, TypeSemaphores
<1>2. freeCount[c] <= ImageCount[c] /\ ImageCount[c] \in Nat
    <2>1. freeCount[c] + Taken(c) + Shown(c) = Cardinality(FreeImages(c))
        BY DEF FreeOK
    <2>2. Taken(c) \in Nat /\ Shown(c) \in Nat
        BY DEF Taken, Shown
    <2> QED
        BY <1>1, <2>1, <2>2, FreeFinite
<1>3. (freeCount[c] + 1) % CountModulus = freeCount[c] + 1
    <2>1. \A a \in Nat, m \in Nat : a < m => a % m = a
        OBVIOUS
    <2> QED
        BY <1>1, <1>2, <2>1
<1> QED
    BY <1>1, <1>3 DEF FlipPost, Post

\* The count of such a chain changes only by its own two threads.
LEMMA OpenCounts ==
    ASSUME TInv, FInv, AInv, NEW c \in Chain, ChainStep(c), NEW d \in Chain, Sound(d), Open(d)'
    PROVE  \/ freeCount'[d] = freeCount[d] /\ ~(FlipPost(c) /\ d = c) /\ ~(AcquireTake(c) /\ d = c)
           \/ FlipPost(c) /\ d = c /\ freeCount'[d] = freeCount[d] + 1
           \/ AcquireTake(c) /\ d = c /\ freeCount[d] > 0 /\ freeCount'[d] = freeCount[d] - 1
<1>1. TypeSemaphores /\ TypeThreads /\ FreeOK(d)
    BY DEF TInv, TypeOK, AInv
<1>2. app[d] \in OpenPlaces /\ app'[d] \in OpenPlaces
    BY DEF Sound, Open
<1>3. CASE AcquireTake(c) /\ d = c
    BY <1>1, <1>3, OwnTake
<1>4. CASE FlipPost(c) /\ d = c
    BY <1>1, <1>4, OwnPost
<1>5. CASE ~(FlipPost(c) /\ d = c) /\ ~(AcquireTake(c) /\ d = c)
    <2>1. ~(DrainTake(c) /\ d = c) /\ ~(Free(c) /\ d = c)
        BY <1>2 DEF DrainTake, Free, OpenPlaces
    <2>2. ~(FlipDrain(c) /\ d = c - 1)
        <3>1. d = c - 1 => c = d + 1
            BY Sizes
        <3> QED
            BY <3>1, OpenBefore DEF FlipStep
    <2>3. App(c) \in Thread /\ Flip(c) \in Thread /\ SemOf(App(c)) = c /\ SemOf(Flip(c)) = c - 1
        BY Sleepers
    <2>4. UNCHANGED freeCount \/ AcquireTake(c) \/ DrainTake(c) \/ FlipDrain(c) \/ FlipPost(c) \/ Free(c)
        BY Changes
    <2>5. CASE AcquireTake(c) \/ DrainTake(c)
        <3>1. freeCount' = [freeCount EXCEPT ![c] = Decrement(freeCount[c])]
            BY <2>3, <2>5 DEF AcquireTake, DrainTake, Take
        <3> QED
            BY <1>1, <1>5, <2>1, <2>5, <3>1 DEF TypeSemaphores
    <2>6. CASE FlipDrain(c)
        <3>1. freeCount' = [freeCount EXCEPT ![c - 1] = Decrement(freeCount[c - 1])]
            BY <2>3, <2>6 DEF FlipDrain, Take
        <3> QED
            BY <1>1, <1>5, <2>2, <2>6, <3>1 DEF TypeSemaphores
    <2>7. CASE FlipPost(c) \/ Free(c)
        BY <1>1, <1>5, <2>1, <2>7 DEF FlipPost, Post, Free, Set, TypeSemaphores
    <2> QED
        BY <1>5, <2>4, <2>5, <2>6, <2>7
<1> QED
    BY <1>3, <1>4, <1>5

\* The thread of the application waits in acquire_next_image only, and what it is woken
\* for is there.
LEMMA OpenWaits ==
    ASSUME TInv, FInv, AInv, NEW c \in Chain, ChainStep(c), NEW d \in Chain, Sound(d)'
    PROVE  /\ wait'[App(d)] # "awake" => app'[d] = "acquire"
           /\ wait'[App(d)] = "woken" => freeCount'[d] > 0
<1>1. TypeThreads /\ FreeOK(d) /\ TypeSemaphores
    BY DEF TInv, TypeOK, AInv
<1>2. App(d) \in Thread /\ SemOf(App(d)) = d /\ App(d) # Flip(c) /\ (App(d) = App(c) => d = c)
    BY Sleepers DEF App, Flip
<1>3. CASE Create(c) /\ d = c
    <2>1. wait' = wait /\ app[d] = "none"
        BY <1>3 DEF Create
    <2> QED
        BY <1>1, <2>1 DEF FreeOK
<1>4. CASE ~(Create(c) /\ d = c)
    <2>1. Sound(d) /\ Open(d)' /\ app[d] # "drain" /\ app'[d] \in OpenPlaces
        <3>1. Sound(d) /\ Open(d)'
            BY <1>4, SoundBefore
        <3> QED
            BY <3>1 DEF Sound, Open, OpenPlaces
    <2>2. CASE wait'[App(d)] = wait[App(d)]
        <3> SUFFICES ASSUME wait[App(d)] # "awake"
                     PROVE  app'[d] = "acquire" /\ (wait[App(d)] = "woken" => freeCount'[d] > 0)
            BY <2>2
        <3>1. app[d] = "acquire" /\ (wait[App(d)] = "woken" => freeCount[d] > 0)
            BY <1>1, <2>1 DEF FreeOK
        <3>2. ~((AcquireTake(c) \/ AcquireNothing(c)) /\ d = c)
            <4>1. (AcquireTake(c) \/ AcquireNothing(c)) /\ d = c => wait'[App(d)] = "awake"
                BY <1>1, <1>2 DEF AcquireTake, AcquireNothing, Take, Set, TypeSemaphores
            <4> QED
                BY <2>2, <4>1
        <3>3. app'[d] = "acquire"
            <4>1. CASE d = c
                <5>1. ~AppCall(c)
                    BY <3>1, <4>1 DEF AppCall, Create, Acquire, Present, Destroy, Unused
                <5>2. AppStep(c) => AcquireSleep(c)
                    BY <3>1, <3>2, <4>1 DEF AppStep, Deprecate, Deprecated, AcquireCheck, AcquireScan,
                        AcquireLost, Look, Looked, Submit, SubmitFails, Mark, Enqueue, PostFlip, StartWait,
                        DrainCount, DrainTake, DrainSleep, DrainDone, Free
                <5>3. app' = app
                    BY <5>1, <5>2 DEF ChainStep, FlipStep, Signal, AcquireSleep, Sleep, FlipTake,
                        FlipFence, FlipFails, FlipLook, FlipFirst, FlipDrain, FlipDrainSleep, FlipBegin,
                        FlipShow, FlipRelease, FlipPost
                <5> QED
                    BY <3>1, <5>3
            <4>2. CASE d # c
                BY <3>1, <4>2, Places
            <4> QED
                BY <4>1, <4>2
        <3>4. freeCount'[d] = freeCount[d] \/ freeCount'[d] = freeCount[d] + 1
            BY <2>1, <3>2, OpenCounts
        <3>5. freeCount[d] \in Nat
            BY <1>1 DEF TypeSemaphores
        <3> QED
            BY <3>1, <3>3, <3>4, <3>5
    <2>3. CASE wait'[App(d)] # wait[App(d)] /\ wait'[App(d)] # "awake"
        <3>1. \/ (AcquireSleep(c) \/ DrainSleep(c)) /\ d = c /\ wait'[App(d)] = "asleep"
              \/ FlipPost(c) /\ wait[App(d)] = "asleep" /\ d = c
            BY <1>2, <2>3, Waits
        <3>2. CASE FlipPost(c) /\ wait[App(d)] = "asleep" /\ d = c
            <4>1. app' = app /\ app[d] = "acquire"
                BY <1>1, <2>1, <3>2 DEF FlipPost, FreeOK
            <4>2. freeCount'[d] = freeCount[d] + 1
                BY <1>1, <2>1, <3>2, OwnPost
            <4>3. freeCount[d] \in Nat
                BY <1>1 DEF TypeSemaphores
            <4> QED
                BY <4>1, <4>2, <4>3
        <3>3. CASE (AcquireSleep(c) \/ DrainSleep(c)) /\ d = c /\ wait'[App(d)] = "asleep"
            <4>1. AcquireSleep(c)
                BY <2>1, <3>3 DEF DrainSleep
            <4> QED
                BY <3>3, <4>1 DEF AcquireSleep, Sleep
        <3> QED
            BY <3>1, <3>2, <3>3
    <2> QED
        BY <2>2, <2>3
<1> QED
    BY <1>3, <1>4

\* The semaphore, an image taken and not found yet, and one shown and not given back, are
\* the FREE images.
LEMMA OpenSum ==
    ASSUME TInv, FInv, AInv, NEW c \in Chain, ChainStep(c), NEW d \in Chain, Sound(d)'
    PROVE  freeCount'[d] + Taken(d)' + Shown(d)' = Cardinality(FreeImages(d))'
<1>1. TypeThreads /\ FreeOK(d) /\ TypeSemaphores /\ TypeImages /\ ShapeOK
    BY DEF TInv, TypeOK, AInv
<1>2. freeCount[d] \in Nat /\ IsFiniteSet(FreeImages(d)) /\ Cardinality(FreeImages(d)) \in Nat
    BY <1>1, FreeFinite DEF TypeSemaphores
<1>3. CASE Create(c) /\ d = c
    <2>1. /\ app[c] = "none" /\ app'[c] \notin {"taken", "scan"} /\ flip'[c] = "sleep" /\ freeCount' = freeCount
          /\ status'[c] = [i \in Images(c) |-> "FREE"]
        BY <1>1, <1>3 DEF Create, GoApp, GoFlip, Set, TypeThreads, ShapeOK
    <2>2. FreeImages(c)' = 0 .. ImageCount[c] - 1
        BY <2>1 DEF FreeImages, Images
    <2>3. ASSUME NEW m \in Nat PROVE Cardinality(0 .. m - 1) = m
        BY FS_Interval
    <2>4. ImageCount[c] \in Nat
        BY Sizes
    <2>5. Cardinality(0 .. ImageCount[c] - 1) = ImageCount[c]
        BY <2>3, <2>4
    <2>6. Cardinality(FreeImages(c))' = ImageCount[c]
        BY <2>2, <2>5
    <2>7. freeCount'[c] = ImageCount[c] /\ Taken(c)' = 0 /\ Shown(c)' = 0
        BY <1>1, <1>3, <2>1 DEF FreeOK, Taken, Shown
    <2> QED
        BY <1>3, <2>4, <2>6, <2>7
<1>4. CASE ~(Create(c) /\ d = c)
    <2>1. Sound(d) /\ freeCount[d] + Taken(d) + Shown(d) = Cardinality(FreeImages(d))
        BY <1>1, <1>4, SoundBefore DEF FreeOK
    <2>0. Open(d) /\ Open(d)'
        BY <2>1, SoundBefore DEF Sound
    <2>2. CASE d # c
        <3>1. app'[d] = app[d] /\ flip'[d] = flip[d] /\ status'[d] = status[d]
            <4>1. ~(Deprecate(c) /\ d = c - 1)
                <5>1. d = c - 1 => c = d + 1
                    BY Sizes
                <5> QED
                    BY <2>0, <5>1, OpenBefore DEF AppStep
            <4> QED
                BY <2>2, <4>1, Elsewhere
        <3>2. freeCount'[d] = freeCount[d]
            BY <2>0, <2>1, <2>2, OpenCounts
        <3>3. FreeImages(d)' = FreeImages(d) /\ Taken(d)' = Taken(d) /\ Shown(d)' = Shown(d)
            BY <3>1 DEF FreeImages, Images, Taken, Shown
        <3> QED
            BY <2>1, <3>2, <3>3
    <2>3. CASE d = c
        <3>1. \/ AcquireScan(c) /\ k[c] \in FreeImages(c) /\ app'[c] = "idle"
                 /\ FreeImages(c)' = FreeImages(c) \ {k[c]}
              \/ FlipShow(c) /\ hand[c] \notin FreeImages(c)
                 /\ FreeImages(c)' = FreeImages(c) \union {hand[c]}
              \/ FreeImages(c)' = FreeImages(c) /\ ~FlipShow(c) /\ (AcquireScan(c) => app'[c] = "scan")
            BY <2>0, <2>3, FreeChanges
        <3>2. \/ freeCount'[c] = freeCount[c] /\ ~FlipPost(c) /\ ~AcquireTake(c)
              \/ FlipPost(c) /\ freeCount'[c] = freeCount[c] + 1
              \/ AcquireTake(c) /\ freeCount'[c] = freeCount[c] - 1
            BY <2>0, <2>1, <2>3, OpenCounts
        <3>3. Taken(c) \in Nat /\ Shown(c) \in Nat
            BY DEF Taken, Shown
        <3>4. CASE AcquireScan(c) /\ app'[c] = "idle"
            <4>1. app[c] = "scan" /\ flip' = flip /\ freeCount' = freeCount
                BY <3>4 DEF AcquireScan
            <4>2. FreeImages(c)' = FreeImages(c) \ {k[c]} /\ k[c] \in FreeImages(c)
                <5>1. ~FlipShow(c)
                    BY <1>1, <4>1 DEF FlipShow, GoFlip, Set, TypeThreads
                <5> QED
                    BY <3>1, <3>4, <5>1
            <4>3. Cardinality(FreeImages(c) \ {k[c]}) = Cardinality(FreeImages(c)) - 1
                BY <1>2, <2>3, <4>2, FS_RemoveElement
            <4>4. Cardinality(FreeImages(c))' = Cardinality(FreeImages(c)) - 1
                BY <4>2, <4>3
            <4> QED
                BY <1>2, <2>1, <2>3, <3>3, <3>4, <4>1, <4>4 DEF Taken, Shown
        <3>5. CASE FlipShow(c)
            <4>1. flip[c] = "show" /\ flip'[c] = "shown" /\ app' = app /\ freeCount' = freeCount
                BY <1>1, <3>5 DEF FlipShow, GoFlip, Set, TypeThreads
            <4>2. FreeImages(c)' = FreeImages(c) \union {hand[c]} /\ hand[c] \notin FreeImages(c)
                <5>1. ~AcquireScan(c)
                    BY <1>1, <4>1 DEF AcquireScan, Set, TypeThreads
                <5> QED
                    BY <3>1, <3>5, <5>1
            <4>3. Cardinality(FreeImages(c) \union {hand[c]}) = Cardinality(FreeImages(c)) + 1
                BY <1>2, <2>3, <4>2, FS_AddElement
            <4>4. Cardinality(FreeImages(c))' = Cardinality(FreeImages(c)) + 1
                BY <4>2, <4>3
            <4> QED
                BY <1>2, <2>1, <2>3, <3>3, <4>1, <4>4 DEF Taken, Shown
        <3>6. CASE ~FlipShow(c) /\ ~(AcquireScan(c) /\ app'[c] = "idle")
            <4>1. FreeImages(c)' = FreeImages(c) /\ Cardinality(FreeImages(c))' = Cardinality(FreeImages(c))
                BY <3>1, <3>6
            <4>2. CASE FlipPost(c)
                <5>1. flip[c] = "post" /\ flip'[c] = "sleep" /\ app' = app
                    BY <1>1, <4>2 DEF FlipPost, GoFlip, Set, TypeThreads
                <5>2. freeCount'[c] = freeCount[c] + 1
                    BY <1>1, <2>1, <2>3, <4>2, OwnPost
                <5> QED
                    BY <1>2, <2>1, <2>3, <3>3, <4>1, <5>1, <5>2 DEF Taken, Shown
            <4>3. CASE AcquireTake(c)
                <5>1. app[c] = "acquire" /\ app'[c] = "taken" /\ flip' = flip
                    BY <1>1, <4>3 DEF AcquireTake, GoApp, Set, TypeThreads
                <5>2. freeCount'[c] = freeCount[c] - 1
                    BY <1>1, <2>1, <2>3, <4>3, OwnTake
                <5> QED
                    BY <1>2, <2>1, <2>3, <3>3, <4>1, <5>1, <5>2 DEF Taken, Shown
            <4>4. CASE ~FlipPost(c) /\ ~AcquireTake(c)
                <5>1. freeCount'[c] = freeCount[c]
                    BY <3>2, <4>4
                <5>2. Shown(c)' = Shown(c)
                    <6>1. UNCHANGED flip \/ FlipTake(c) \/ FlipFence(c) \/ FlipLook(c) \/ FlipFirst(c)
                          \/ FlipBegin(c) \/ FlipRelease(c)
                        <7>1. ~Create(c) /\ ~Free(c) /\ ~FlipFails(c)
                            BY <2>0, <2>3, SoundBefore DEF Create, Free, Open, OpenPlaces
                        <7> QED
                            BY <3>6, <4>4, <7>1, Changes
                    <6>2. FlipLook(c) => status[c][hand[c]] = "PENDING"
                        BY <2>0, <2>3, OpenImages DEF FlipLook, HasImage
                    <6> QED
                        BY <1>1, <6>1, <6>2 DEF Shown, TypeThreads, FlipTake, FlipFence, FlipLook, FlipFirst,
                            FlipBegin, FlipRelease, GoFlip, Set
                <5>3. Taken(c)' = Taken(c)
                    <6>1. FlipStep(c) \/ Signal(c) => app' = app
                        BY DEF FlipStep, Signal, FlipTake, FlipFence, FlipFails, FlipLook, FlipFirst, FlipDrain,
                            FlipDrainSleep, FlipBegin, FlipShow, FlipRelease, FlipPost, Sleep
                    <6>2. AppCall(c) => app[c] = "idle" /\ app'[c] \notin {"taken", "scan"}
                        BY <1>1, <1>4, <2>3 DEF TypeThreads, GoApp, Set, AppCall, Acquire, Present, Destroy, Unused
                    <6>3. ~AcquireLost(c)
                        <7>1. app'[c] # "lost"
                            BY <2>0, <2>3 DEF Open, OpenPlaces
                        <7> QED
                            BY <1>1, <7>1 DEF AcquireLost, GoApp, Set, TypeThreads
                    <6>4. AcquireCheck(c) => app[c] = "taken" /\ app'[c] = "scan"
                        BY <1>1, <2>1, <2>3 DEF AcquireCheck, GoApp, Set, TypeThreads, Sound
                    <6>5. AppStep(c) => (app'[c] \in {"taken", "scan"} <=> app[c] \in {"taken", "scan"})
                        BY <1>1, <3>6, <4>4, <6>3, <6>4 DEF TypeThreads, GoApp, Set, Return, AppStep, Deprecate,
                            Deprecated, AcquireSleep, AcquireNothing, AcquireScan,
                            Look, Looked, Submit, SubmitFails, Mark, Enqueue, PostFlip, StartWait,
                            DrainCount, DrainTake, DrainSleep, DrainDone, Free, Sleep
                    <6> QED
                        BY <6>1, <6>2, <6>5 DEF ChainStep, Taken
                <5> QED
                    BY <2>1, <2>3, <4>1, <5>1, <5>2, <5>3
            <4> QED
                BY <4>2, <4>3, <4>4
        <3> QED
            BY <3>4, <3>5, <3>6
    <2> QED
        BY <2>2, <2>3
<1> QED
    BY <1>3, <1>4

\* Nobody touches the semaphore of a swapchain that does not exist yet.
LEMMA NoneKept ==
    ASSUME TInv, FInv, AInv, NEW c \in Chain, ChainStep(c), NEW d \in Chain, app'[d] = "none"
    PROVE  freeCount'[d] = ImageCount[d] /\ wait'[App(d)] = "awake"
<1>1. TypeSemaphores /\ TypeThreads /\ FreeOK(d)
    BY DEF TInv, TypeOK, AInv
<1>2. app[d] = "none" /\ ~(AppStep(c) /\ d = c)
    <2>1. d = c => ~Create(c)
        BY <1>1 DEF Create, GoApp, Set, TypeThreads
    <2> QED
        BY <2>1, Places
<1>3. freeCount[d] = ImageCount[d] /\ wait[App(d)] = "awake"
    BY <1>1, <1>2 DEF FreeOK
<1>4. App(c) \in Thread /\ Flip(c) \in Thread /\ SemOf(App(c)) = c /\ SemOf(Flip(c)) = c - 1 /\ App(d) \in Thread
    BY Sleepers
<1>5. App(d) # Flip(c) /\ (App(d) = App(c) => d = c)
    BY DEF App, Flip
<1>6. wait'[App(d)] = "awake"
    BY <1>2, <1>3, <1>5, <1>4, Waits DEF AppStep
<1>7. ~(FlipPost(c) /\ d = c)
    BY <1>2 DEF FlipPost, FInv, FlowOK, IdleOK
<1>8. ~(FlipDrain(c) /\ d = c - 1)
    <2> SUFFICES ASSUME d = c - 1 PROVE flip[c] = "none"
        BY DEF FlipDrain
    <2>1. d + 1 = c
        BY Sizes
    <2>2. app[c] = "none"
        BY <1>2, <2>1 DEF TInv, LinksOK, LinkOK
    <2> QED
        BY <2>2 DEF FInv, FlowOK, IdleOK
<1>9. UNCHANGED freeCount \/ AcquireTake(c) \/ DrainTake(c) \/ FlipDrain(c) \/ FlipPost(c) \/ Free(c)
    BY Changes
<1>10. CASE AcquireTake(c) \/ DrainTake(c)
    <2>1. freeCount' = [freeCount EXCEPT ![c] = Decrement(freeCount[c])]
        BY <1>4, <1>10 DEF AcquireTake, DrainTake, Take
    <2> QED
        BY <1>1, <1>2, <1>3, <1>6, <1>10, <2>1 DEF AppStep, TypeSemaphores
<1>11. CASE FlipDrain(c)
    <2>1. freeCount' = [freeCount EXCEPT ![c - 1] = Decrement(freeCount[c - 1])]
        BY <1>4, <1>11 DEF FlipDrain, Take
    <2> QED
        BY <1>1, <1>3, <1>6, <1>8, <1>11, <2>1 DEF TypeSemaphores
<1>12. CASE FlipPost(c) \/ Free(c)
    BY <1>1, <1>2, <1>3, <1>6, <1>7, <1>12 DEF FlipPost, Post, Free, AppStep, Set, TypeSemaphores
<1> QED
    BY <1>3, <1>6, <1>9, <1>10, <1>11, <1>12

\* While the images are looked at, a FREE one is ahead.
LEMMA ScanFinds ==
    ASSUME TInv, FInv, AInv, NEW c \in Chain, ChainStep(c), NEW d \in Chain, app'[d] = "scan"
    PROVE  \E i \in FreeImages(d)' : i >= k'[d]
<1>1. TypeThreads /\ FreeOK(d)
    BY DEF TInv, TypeOK, AInv
<1>2. CASE app[d] = "scan"
    <2>1. Open(d)
        BY <1>2 DEF Open, OpenPlaces, FInv, FlowOK, IdleOK
    <2>2. Open(d)'
        <3>1. d + 1 \in Chain => app[d + 1] = "none"
            BY <2>1 DEF Open
        <3>2. d + 1 \in Chain => app'[d + 1] = "none"
            <4> SUFFICES ASSUME d + 1 \in Chain, Create(c), c = d + 1 PROVE FALSE
                BY <3>1, Places
            <4>1. c > 1 /\ c - 1 = d
                BY Sizes
            <4> QED
                BY <1>2, <4>1 DEF Create
        <3> QED
            BY <3>2 DEF Open, OpenPlaces
    <2>3. PICK i \in FreeImages(d) : i >= k[d]
        BY <1>1, <1>2 DEF FreeOK
    <2>4. CASE d = c
        <3>1. \/ AcquireScan(c) /\ k[c] \in FreeImages(c) /\ app'[c] = "idle"
                 /\ FreeImages(c)' = FreeImages(c) \ {k[c]}
              \/ FlipShow(c) /\ hand[c] \notin FreeImages(c)
                 /\ FreeImages(c)' = FreeImages(c) \union {hand[c]}
              \/ FreeImages(c)' = FreeImages(c) /\ ~FlipShow(c) /\ (AcquireScan(c) => app'[c] = "scan")
            BY <2>1, <2>2, <2>4, FreeChanges
        <3>2. i \in FreeImages(c)'
            BY <2>3, <2>4, <3>1
        <3>3. CASE AcquireScan(c)
            <4>1. status[c][k[c]] # "FREE" /\ k'[c] = k[c] + 1
                BY <1>1, <2>4, <3>3 DEF AcquireScan, Return, GoApp, Set, TypeThreads
            <4>2. i # k[c] /\ i \in Nat /\ k[c] \in Nat
                <5>1. i \in Images(c) /\ status[c][i] = "FREE"
                    BY <2>3, <2>4 DEF FreeImages
                <5>2. i # k[c]
                    BY <4>1, <5>1
                <5>3. i \in Nat
                    BY <5>1, Sizes DEF Images
                <5>4. k[c] \in Nat
                    BY <1>1, Sizes DEF TypeThreads
                <5> QED
                    BY <5>2, <5>3, <5>4
            <4>3. i >= k'[c]
                BY <2>3, <2>4, <4>1, <4>2
            <4>4. i \in FreeImages(d)' /\ i >= k'[d]
                BY <2>4, <3>2, <4>3
            <4> QED
                BY <4>4
        <3>4. CASE ~AcquireScan(c)
            <4>1. ~AppCall(c)
                BY <1>2, <2>4 DEF AppCall, Create, Acquire, Present, Destroy, Unused
            <4>2. AppStep(c) => AcquireLost(c)
                BY <1>2, <2>4, <3>4 DEF AppStep, Deprecate, Deprecated, AcquireTake, AcquireSleep, AcquireNothing,
                    AcquireCheck, Look, Looked, Submit, SubmitFails, Mark, Enqueue, PostFlip, StartWait,
                    DrainCount, DrainTake, DrainSleep, DrainDone, Free
            <4>3. k' = k
                BY <4>1, <4>2 DEF ChainStep, FlipStep, Signal, AcquireLost, FlipTake,
                    FlipFence, FlipFails, FlipLook, FlipFirst, FlipDrain, FlipDrainSleep, FlipBegin,
                    FlipShow, FlipRelease, FlipPost, Sleep
            <4> QED
                BY <2>3, <2>4, <3>2, <4>3
        <3> QED
            BY <3>3, <3>4
    <2>5. CASE d # c
        <3>1. ~(Deprecate(c) /\ d = c - 1)
            <4>1. d = c - 1 => c = d + 1
                BY Sizes
            <4> QED
                BY <2>2, <4>1, OpenBefore DEF AppStep
        <3>2. status'[d] = status[d] /\ k'[d] = k[d]
            BY <2>5, <3>1, Elsewhere
        <3> QED
            BY <2>3, <3>2 DEF FreeImages, Images
    <2> QED
        BY <2>4, <2>5
<1>3. CASE app[d] # "scan"
    <2>1. d = c /\ AcquireCheck(c)
        <3>1. d = c
            BY <1>3, Places
        <3>2. FlipStep(c) \/ Signal(c) => app' = app
            BY DEF FlipStep, Signal, FlipTake, FlipFence, FlipFails, FlipLook, FlipFirst, FlipDrain,
                FlipDrainSleep, FlipBegin, FlipShow, FlipRelease, FlipPost, Sleep
        <3>3. AppCall(c) => app'[c] # "scan"
            BY <1>1 DEF TypeThreads, GoApp, Set, AppCall, Create, Acquire, Present, Destroy
        <3>4. AppStep(c) => app[c] = "scan" \/ app'[c] # "scan" \/ AcquireCheck(c)
            BY <1>1 DEF TypeThreads, GoApp, Set, Return, AppStep, Deprecate,
                Deprecated, AcquireTake, AcquireSleep, AcquireNothing, AcquireScan, AcquireLost,
                Look, Looked, Submit, SubmitFails, Mark, Enqueue, PostFlip, StartWait,
                DrainCount, DrainTake, DrainSleep, DrainDone, Free, Sleep
        <3> QED
            BY <1>3, <3>1, <3>2, <3>3, <3>4 DEF ChainStep
    <2>2. app[c] = "taken" /\ UNCHANGED <<status, freeCount>> /\ k' = k
        BY <1>1, <2>1 DEF AcquireCheck, Return, GoApp, Set, TypeThreads
    <2>9. valid[c]
        <3>1. ~valid[c] => app'[c] = "idle"
            BY <1>1, <2>1 DEF AcquireCheck, Return, GoApp, Set, TypeThreads
        <3> QED
            BY <2>1, <3>1
    <2>3. k[c] = 0 /\ Sound(c)
        BY <2>2, <2>9 DEF FInv, FlowOK, IdleOK, Sound, Open, OpenPlaces
    <2>4. freeCount[c] + Taken(c) + Shown(c) = Cardinality(FreeImages(c))
        BY <1>1, <2>1, <2>3 DEF FreeOK
    <2>5. freeCount[c] \in Nat /\ Shown(c) \in Nat /\ Taken(c) = 1
        BY <2>2 DEF TInv, TypeOK, TypeSemaphores, Shown, Taken
    <2>6. FreeImages(c) # {}
        BY <2>4, <2>5, FS_EmptySet
    <2>7. PICK i : i \in FreeImages(c)
        BY <2>6
    <2>8. i \in FreeImages(c)' /\ i \in Nat
        BY <2>2, <2>7, Sizes DEF FreeImages, Images
    <2> QED
        BY <2>1, <2>2, <2>3, <2>8
<1> QED
    BY <1>2, <1>3

\* Every step keeps the count and the FREE images in agreement.
LEMMA ANext ==
    ASSUME ~SpuriousWakeups, TInv, FInv, AInv, [Next]_vars
    PROVE  AInv'
<1>1. ASSUME NEW c \in Chain, ChainStep(c), NEW d \in Chain PROVE FreeOK(d)'
    <2>2. app'[d] = "none" => freeCount'[d] = ImageCount[d] /\ wait'[App(d)] = "awake"
        BY <1>1, NoneKept
    <2>3. Sound(d)' => freeCount'[d] + Taken(d)' + Shown(d)' = Cardinality(FreeImages(d))'
        BY <1>1, OpenSum
    <2>4. Sound(d)' => (wait'[App(d)] = "woken" => freeCount'[d] > 0)
                      /\ (wait'[App(d)] # "awake" => app'[d] = "acquire")
        BY <1>1, OpenWaits
    <2>5. app'[d] = "scan" => \E i \in FreeImages(d)' : i >= k'[d]
        BY <1>1, ScanFinds
    <2> QED
        BY <2>2, <2>3, <2>4, <2>5 DEF FreeOK, App
<1>2. ASSUME UNCHANGED vars, NEW d \in Chain PROVE FreeOK(d)'
    BY <1>2 DEF AInv, FreeOK, Sound, Open, Taken, Shown, FreeImages, Images, App
<1>3. \A t \in Thread : ~SpuriousWakeup(t)
    BY DEF SpuriousWakeup
<1> QED
    BY <1>1, <1>2, <1>3, Steps DEF AInv

\* Whoever has looked at all images has met a FREE one.
LEMMA FreeSound == ASSUME TInv, AInv PROVE AcquireFindsFree
<1> SUFFICES ASSUME NEW c \in Chain, app[c] = "scan", k[c] = ImageCount[c] PROVE FALSE
    BY DEF AcquireFindsFree
<1>1. PICK i \in FreeImages(c) : i >= k[c]
    BY DEF AInv, FreeOK
<1>2. i \in 0 .. ImageCount[c] - 1 /\ ImageCount[c] \in Nat
    BY <1>1, Sizes DEF FreeImages, Images
<1> QED
    BY <1>1, <1>2

\* An acquisition that has taken the semaphore and found the swapchain valid finds a FREE
\* image, in however many threads the application uses its swapchains and whatever fails
\* meanwhile, if no thread wakes up of itself.
THEOREM TakenIsFree == ~SpuriousWakeups => (Spec => []AcquireFindsFree)
<1> SUFFICES ASSUME ~SpuriousWakeups PROVE Spec => []AcquireFindsFree
    OBVIOUS
<1>1. Init => TInv /\ FInv /\ AInv
    BY TInit, FInit, AInit
<1>2. TInv /\ FInv /\ AInv /\ [Next]_vars => TInv' /\ FInv' /\ AInv'
    BY TNext, FNext, ANext
<1>3. TInv /\ AInv => AcquireFindsFree
    BY FreeSound
<1> QED
    BY <1>1, <1>2, <1>3, PTL DEF Spec

-----------------------------------------------------------------------------
(* The images on their way to the page flip thread are the pending ones,   *)
(* in their order: a swapchain alone is a queue.                           *)

OnItsWay(c, i) ==
    \/ i \in Entries(c)
    \/ HasImage(c) /\ i = hand[c]
    \/ app[c] = "enqueue" /\ i = img[c]

PendingOK(c) == \A i \in Images(c) : status[c][i] = "PENDING" => OnItsWay(c, i)
PInv == \A c \in Chain : PendingOK(c)

\* The images of chain c that wait to be shown: the one in the hand of the page flip
\* thread and those in the ring.
LineSize(c) == InRing(c) + (IF HasImage(c) THEN 1 ELSE 0)
LineAt(c, n) ==
    IF HasImage(c) THEN IF n = 1 THEN hand[c] ELSE Slot(c, n - 2) ELSE Slot(c, n - 1)
Line(c) == [n \in 1 .. LineSize(c) |-> LineAt(c, n)]

LineKept(c) ==
    /\ InRing(c)' = InRing(c) /\ \A n \in Nat : Slot(c, n)' = Slot(c, n)
    /\ HasImage(c)' = HasImage(c) /\ (HasImage(c) => hand'[c] = hand[c])

\* No image is PENDING at the beginning.
LEMMA PInit == Init => PInv
<1> SUFFICES ASSUME Init, NEW c \in Chain PROVE \A i \in Images(c) : status[c][i] # "PENDING"
    BY DEF PInv, PendingOK
<1> QED
    BY DEF Init

\* An image enters the ring, goes from the ring into the hand of the page flip thread,
\* and leaves it when it has been shown.
LEMMA LineMoves ==
    ASSUME ~MayFail, TInv, FInv, NEW c \in Chain, ChainStep(c)
    PROVE  \/ LineKept(c) /\ (app[c] = "enqueue" => app'[c] = "enqueue" /\ img'[c] = img[c])
           \/ Enqueue(c) \/ FlipTake(c) \/ FlipShow(c) \/ Free(c)
           \/ FlipLook(c) /\ status[c][hand[c]] = "FREE"
<1>1. TypeThreads /\ flipSem \in [Chain -> Nat]
    BY DEF TInv, TypeOK, TypeSemaphores
<1>2. CASE Create(c)
    <2>1. flip[c] = "none" /\ flip'[c] = "sleep" /\ app[c] = "none" /\ app'[c] \in {"deprecate", "idle"}
        BY <1>1, <1>2 DEF Create, GoApp, GoFlip, Set, TypeThreads, FInv, FlowOK, IdleOK
    <2> QED
        BY <1>2, <2>1 DEF Create, LineKept, InRing, Slot, HasImage
<1>3. CASE PostFlip(c)
    <2>1. app[c] = "post" /\ app'[c] = "idle" /\ flipSem'[c] = flipSem[c] + 1
        BY <1>1, <1>3 DEF PostFlip, Return, GoApp, Set, TypeThreads
    <2> QED
        BY <1>1, <1>3, <2>1 DEF PostFlip, LineKept, InRing, Slot, HasImage
<1>4. CASE (AppCall(c) \/ AppStep(c)) /\ ~Create(c) /\ ~PostFlip(c) /\ ~Enqueue(c) /\ ~Free(c)
    <2> USE DEF GoApp, Set, Return, AppCall, AppStep, Acquire, Present, Destroy, Deprecate, AcquireScan,
            Deprecated, AcquireTake, AcquireSleep, AcquireNothing, AcquireCheck, Mark,
            AcquireLost, Look, Looked, Submit, SubmitFails, StartWait,
            DrainCount, DrainTake, DrainSleep, DrainDone, Sleep, Unused
    <2>1. UNCHANGED <<ring, head, flipSem, flip, hand>>
        BY <1>4
    <2>2. app[c] \notin {"post", "enqueue"} /\ app'[c] # "post"
        BY <1>1, <1>4 DEF TypeThreads
    <2> QED
        BY <2>1, <2>2 DEF LineKept, InRing, Slot, HasImage
<1>5. CASE (FlipStep(c) \/ Signal(c)) /\ ~FlipTake(c) /\ ~FlipShow(c) /\ ~FlipLook(c)
    <2> USE DEF FlipStep, FlipFence, FlipFails, FlipFirst, FlipDrain, FlipDrainSleep, FlipBegin,
            FlipRelease, FlipPost, Sleep, Signal, GoFlip, Set
    <2>1. UNCHANGED <<ring, head, flipSem, app, img>>
        BY <1>5
    <2>2. HasImage(c) => hand'[c] = hand[c]
        BY <1>1, <1>5 DEF HasImage
    <2>3. FlipFails(c) => FALSE
        OBVIOUS
    <2>4. HasImage(c)' <=> HasImage(c)
        BY <1>1, <1>5, <2>3 DEF HasImage, TypeThreads
    <2> QED
        BY <2>1, <2>2, <2>4 DEF LineKept, InRing, Slot, HasImage
<1>6. CASE FlipLook(c) /\ status[c][hand[c]] # "FREE"
    <2>1. UNCHANGED <<ring, head, flipSem, app, img, hand>>
        BY <1>6 DEF FlipLook
    <2>2. flip[c] = "look" /\ flip'[c] \in {"first", "show"}
        BY <1>1, <1>6 DEF FlipLook, GoFlip, Set, TypeThreads
    <2> QED
        BY <2>1, <2>2 DEF LineKept, InRing, Slot, HasImage
<1> QED
    BY <1>2, <1>3, <1>4, <1>5, <1>6 DEF ChainStep, AppStep

\* A step of one chain does not touch the line of another.
LEMMA LineElsewhere ==
    ASSUME TInv, NEW c \in Chain, ChainStep(c), NEW d \in Chain, d # c
    PROVE  LineKept(d) /\ app'[d] = app[d] /\ img'[d] = img[d]
BY Elsewhere DEF LineKept, InRing, Slot, HasImage

\* What is on its way stays so until it has been shown.
LEMMA PendingKept ==
    ASSUME ~MayFail, TInv, FInv, NEW c \in Chain, ChainStep(c), PendingOK(c)
    PROVE  PendingOK(c)'
<1> SUFFICES ASSUME NEW i \in Images(c), status'[c][i] = "PENDING" PROVE OnItsWay(c, i)'
    BY DEF PendingOK, Images
<1>1. TypeThreads /\ TypeImages /\ FlowOK(c) /\ hand[c] \in Images(c)
    BY DEF TInv, TypeOK, FInv, TypeThreads
<1>2. status[c][i] = "PENDING" \/ Mark(c)
    BY Pends
<1>3. status[c][i] = "PENDING" => OnItsWay(c, i)
    BY DEF PendingOK
<1>4. CASE Mark(c)
    <2>1. app[c] = "mark" /\ app'[c] = "enqueue" /\ UNCHANGED <<ring, head, flipSem, flip, hand, img>>
        BY <1>1, <1>4 DEF Mark, GoApp, Set, TypeThreads
    <2>2. CASE i = img[c]
        BY <2>1, <2>2 DEF OnItsWay
    <2>3. CASE i # img[c]
        <3>1. status'[c][i] = status[c][i]
            <4>1. img[c] \in Images(c)
                BY <1>1 DEF TypeThreads
            <4> QED
                BY <1>4, <2>3, <4>1, OneImage DEF Mark
        <3>2. Entries(c)' = Entries(c)
            BY <2>1 DEF Entries, InRing, Slot
        <3> QED
            BY <1>3, <2>1, <3>1, <3>2 DEF OnItsWay, HasImage
    <2> QED
        BY <2>2, <2>3
<1>5. CASE ~Mark(c) /\ Enqueue(c)
    <2> SUFFICES ASSUME NEW n, n = InRing(c) PROVE OnItsWay(c, i)'
        OBVIOUS
    <2>1. /\ n \in Nat /\ InRing(c)' = n + 1 /\ Slot(c, n)' = img[c]
          /\ \A m \in 0 .. n - 1 : Slot(c, m)' = Slot(c, m)
        BY <1>1, <1>5, Enters
    <2>2. Entries(c) \union {img[c]} \subseteq Entries(c)'
        <3>1. n \in 0 .. InRing(c)' - 1 /\ \A m \in 0 .. n - 1 : m \in 0 .. InRing(c)' - 1
            BY <2>1
        <3> QED
            BY <2>1, <3>1 DEF Entries
    <2>3. HasImage(c)' = HasImage(c) /\ hand' = hand
        BY <1>5 DEF Enqueue, HasImage
    <2> QED
        BY <1>2, <1>3, <1>5, <2>2, <2>3 DEF OnItsWay
<1>6. CASE ~Mark(c) /\ FlipTake(c)
    <2> SUFFICES ASSUME NEW n, n = InRing(c) PROVE OnItsWay(c, i)'
        OBVIOUS
    <2>1. /\ n \in Nat /\ InRing(c)' = n - 1 /\ hand'[c] = Slot(c, 0)
          /\ \A m \in 0 .. n - 2 : Slot(c, m)' = Slot(c, m + 1)
        BY <1>1, <1>6, Leaves
    <2>2. Entries(c) \subseteq Entries(c)' \union {hand'[c]}
        <3> SUFFICES ASSUME NEW m \in 0 .. n - 1 PROVE Slot(c, m) \in Entries(c)' \union {hand'[c]}
            BY DEF Entries
        <3>1. CASE m = 0
            BY <2>1, <3>1
        <3>2. CASE m # 0
            <4>1. m - 1 \in 0 .. n - 2 /\ m - 1 \in 0 .. InRing(c)' - 1 /\ (m - 1) + 1 = m
                BY <2>1, <3>2
            <4>2. Slot(c, m) = Slot(c, m - 1)'
                BY <2>1, <4>1
            <4> QED
                BY <4>1, <4>2 DEF Entries
        <3> QED
            BY <3>1, <3>2
    <2>3. HasImage(c)' /\ ~HasImage(c) /\ app' = app /\ img' = img
        BY <1>1, <1>6 DEF FlipTake, HasImage, GoFlip, Set, TypeThreads
    <2> QED
        BY <1>2, <1>3, <1>6, <2>2, <2>3 DEF OnItsWay
<1>7. CASE ~Mark(c) /\ (FlipShow(c) \/ (FlipLook(c) /\ status[c][hand[c]] = "FREE"))
    <2>1. status'[c][hand[c]] # "PENDING" /\ UNCHANGED <<ring, head, flipSem, app, img>>
        <3>1. CASE FlipShow(c)
            BY <1>1, <3>1, OneImage DEF FlipShow
        <3>2. CASE FlipLook(c) /\ status[c][hand[c]] = "FREE"
            BY <1>1, <3>2, OneImage DEF FlipLook, Release
        <3> QED
            BY <1>7, <3>1, <3>2
    <2>2. i # hand[c]
        BY <2>1
    <2>3. Entries(c)' = Entries(c)
        BY <2>1 DEF Entries, InRing, Slot
    <2> QED
        BY <1>2, <1>3, <1>7, <2>1, <2>2, <2>3 DEF OnItsWay
<1>8. CASE Free(c)
    <2>1. status'[c] = [j \in Images(c) |-> "INVALID"]
        BY <1>8 DEF Free, Set, TInv, ShapeOK
    <2> QED
        BY <2>1
<1>9. CASE ~Mark(c) /\ LineKept(c) /\ (app[c] = "enqueue" => app'[c] = "enqueue" /\ img'[c] = img[c])
    <2>1. \A m \in 0 .. InRing(c) - 1 : m \in Nat
        OBVIOUS
    <2>2. Entries(c)' = Entries(c)
        BY <1>9, <2>1 DEF LineKept, Entries
    <2> QED
        BY <1>2, <1>3, <1>9, <2>2 DEF OnItsWay, LineKept
<1> QED
    BY <1>4, <1>5, <1>6, <1>7, <1>8, <1>9, LineMoves

\* Every step of a device that does not fail keeps what is PENDING.
LEMMA PNext == ASSUME ~MayFail, TInv, FInv, PInv, [Next]_vars PROVE PInv'
<1>1. ASSUME NEW c \in Chain, ChainStep(c), NEW d \in Chain PROVE PendingOK(d)'
    <2>1. CASE d = c
        BY <1>1, <2>1, PendingKept DEF PInv
    <2>2. CASE d # c
        <3>1. LineKept(d) /\ app'[d] = app[d] /\ img'[d] = img[d]
            BY <1>1, <2>2, LineElsewhere
        <3>2. \A i \in Images(d) : status'[d][i] = "PENDING" => status[d][i] = "PENDING"
            BY <1>1, <2>2, Pends
        <3>3. \A m \in 0 .. InRing(d) - 1 : m \in Nat
            OBVIOUS
        <3>4. Entries(d)' = Entries(d)
            BY <3>1, <3>3 DEF LineKept, Entries
        <3> QED
            BY <3>1, <3>2, <3>4 DEF PInv, PendingOK, OnItsWay, LineKept, Images
    <2> QED
        BY <2>1, <2>2
<1>2. ASSUME UNCHANGED <<imageVars, ringVars, flipSem, appVars, flipVars>>, NEW d \in Chain PROVE PendingOK(d)'
    <2>1. Entries(d)' = Entries(d) /\ HasImage(d)' = HasImage(d)
        BY <1>2 DEF Entries, InRing, Slot, HasImage
    <2> QED
        BY <1>2, <2>1 DEF PInv, PendingOK, OnItsWay, Images
<1> QED
    BY <1>1, <1>2, Steps DEF PInv, SpuriousWakeup, vars

\* The line of presented images is a sequence of images.
LEMMA LineType ==
    ASSUME TInv, NEW c \in Chain
    PROVE  /\ LineSize(c) \in Nat /\ Line(c) \in Seq(Images(c)) /\ Len(Line(c)) = LineSize(c)
           /\ \A n \in 1 .. LineSize(c) : LineAt(c, n) \in Images(c) /\ Line(c)[n] = LineAt(c, n)
<1>1. InRing(c) \in Nat /\ \A n \in Nat : Slot(c, n) \in Images(c)
    BY Entry
<1>2. hand[c] \in Images(c)
    BY DEF TInv, TypeOK, TypeThreads
<1>3. LineSize(c) \in Nat
    BY <1>1 DEF LineSize
<1>4. ASSUME NEW n \in 1 .. LineSize(c) PROVE LineAt(c, n) \in Images(c)
    <2>1. n - 1 \in Nat /\ (n # 1 => n - 2 \in Nat)
        BY <1>3
    <2> QED
        BY <1>1, <1>2, <2>1 DEF LineAt
<1> QED
    BY <1>3, <1>4 DEF Line

\* The pending images of a swapchain alone are counted as its line.
LEMMA PresentedIsLine ==
    ASSUME TInv, FInv, PInv, NEW c \in Chain, Current(c)
    PROVE  Presented(c) = Line(c)
<1> DEFINE inHand == IF HasImage(c) THEN {hand[c]} ELSE {}
           marked == IF app[c] = "enqueue" THEN {img[c]} ELSE {}
<1>1. RingOK(c) /\ MovingOK(c) /\ Queued(c) = {"PENDING"} /\ hand[c] \in Images(c) /\ img[c] \in Images(c)
    BY DEF FInv, FlowOK, Queued, TInv, TypeOK, TypeThreads
<1>2. \A n \in 0 .. InRing(c) - 1 : n \in Nat /\ Slot(c, n) \in Images(c)
    BY Entry
<1>3. Entries(c) \subseteq Images(c)
    BY <1>2 DEF Entries
<1>4. \A i \in Entries(c) : status[c][i] = "PENDING"
    BY <1>1 DEF RingOK, Entries, InQueue
<1>5. \A i \in inHand \union marked : status[c][i] = "PENDING"
    BY <1>1 DEF MovingOK, InQueue
<1>6. Pending(c) = (Entries(c) \union inHand) \union marked
    <2>1. \A i \in Images(c) : status[c][i] = "PENDING" => i \in (Entries(c) \union inHand) \union marked
        BY DEF PInv, PendingOK, OnItsWay
    <2> QED
        BY <1>1, <1>3, <1>4, <1>5, <2>1 DEF Pending
<1>7. IsFiniteSet(Entries(c)) /\ Cardinality(Entries(c)) = InRing(c) /\ InRing(c) \in Nat
    BY <1>1, Entry, EntriesCount
<1>8. IsFiniteSet(Entries(c) \union inHand) /\ Cardinality(Entries(c) \union inHand) = LineSize(c)
    <2>1. CASE HasImage(c)
        <3>1. hand[c] \notin Entries(c) /\ Entries(c) \union inHand = Entries(c) \union {hand[c]}
            BY <1>1, <2>1 DEF RingOK, Entries
        <3>2. LineSize(c) = InRing(c) + 1
            BY <2>1 DEF LineSize
        <3> QED
            BY <1>7, <3>1, <3>2, FS_AddElement
    <2>2. CASE ~HasImage(c)
        BY <1>7, <2>2 DEF LineSize
    <2> QED
        BY <2>1, <2>2
<1>9. Cardinality(Pending(c)) = LineSize(c) + (IF app[c] = "enqueue" THEN 1 ELSE 0)
    <2>1. LineSize(c) \in Nat
        BY <1>7 DEF LineSize
    <2>2. CASE app[c] = "enqueue"
        <3>1. img[c] \notin Entries(c) \union inHand
            BY <1>1, <2>2 DEF RingOK, MovingOK, Entries
        <3>2. Pending(c) = (Entries(c) \union inHand) \union {img[c]}
            BY <1>6, <2>2
        <3> HIDE DEF inHand
        <3> QED
            BY <1>8, <2>2, <3>1, <3>2, FS_AddElement
    <2>3. CASE app[c] # "enqueue"
        BY <1>6, <1>8, <2>1, <2>3
    <2> QED
        BY <2>2, <2>3
<1>10. Presented(c) = (IF HasImage(c) THEN <<hand[c]>> ELSE << >>) \o [m \in 1 .. InRing(c) |-> Slot(c, m - 1)]
    BY <1>7, <1>9 DEF Presented, LineSize
<1>11. ASSUME NEW s \in Seq(Images(c)), s = [m \in 1 .. InRing(c) |-> Slot(c, m - 1)]
       PROVE  (IF HasImage(c) THEN <<hand[c]>> ELSE << >>) \o s = Line(c)
    <2>1. Len(s) = InRing(c) /\ \A m \in 1 .. InRing(c) : s[m] = Slot(c, m - 1)
        BY <1>7, <1>11
    <2>2. CASE ~HasImage(c)
        <3>1. << >> \o s = s
            BY ConcatEmptySeq
        <3>2. s = Line(c)
            BY <1>11, <2>2, <1>7 DEF Line, LineSize, LineAt
        <3> QED
            BY <2>2, <3>1, <3>2
    <2>3. CASE HasImage(c)
        <3> DEFINE one == <<hand[c]>>
        <3>1. one \in Seq(Images(c)) /\ Len(one) = 1 /\ one[1] = hand[c]
            BY <1>1
        <3> HIDE DEF one
        <3>0. /\ one \o s \in Seq(Images(c)) /\ Len(one \o s) = Len(one) + Len(s)
              /\ \A i \in 1 .. Len(one) + Len(s) :
                   (one \o s)[i] = IF i <= Len(one) THEN one[i] ELSE s[i - Len(one)]
            BY <3>1, ConcatProperties
        <3>2. one \o s \in Seq(Images(c)) /\ Len(one \o s) = 1 + InRing(c)
            BY <2>1, <3>0, <3>1
        <3>3. ASSUME NEW n \in 1 .. 1 + InRing(c) PROVE (one \o s)[n] = LineAt(c, n)
            <4>1. (one \o s)[n] = IF n <= 1 THEN one[n] ELSE s[n - 1]
                BY <2>1, <3>0, <3>1
            <4>2. CASE n = 1
                <5>1. n <= 1
                    BY <4>2
                <5> QED
                    BY <2>3, <3>1, <4>1, <4>2, <5>1 DEF LineAt
            <4>3. CASE n # 1
                <5>1. n - 1 \in 1 .. InRing(c) /\ (n - 1) - 1 = n - 2 /\ ~(n <= 1)
                    BY <1>7, <4>3
                <5> QED
                    BY <2>1, <2>3, <4>1, <4>3, <5>1 DEF LineAt
            <4> QED
                BY <4>2, <4>3
        <3>4. LineSize(c) = 1 + InRing(c)
            BY <1>7, <2>3 DEF LineSize
        <3>5. \A n \in 1 .. Len(one \o s) : (one \o s)[n] = Line(c)[n]
            BY <3>2, <3>3, <3>4, LineType
        <3>6. one \o s = Line(c)
            BY <3>2, <3>4, <3>5, LineType, SeqEqual
        <3> QED
            BY <2>3, <3>6 DEF one
    <2> QED
        BY <2>2, <2>3
<1>12. [m \in 1 .. InRing(c) |-> Slot(c, m - 1)] \in Seq(Images(c))
    <2>1. \A m \in 1 .. InRing(c) : Slot(c, m - 1) \in Images(c)
        BY <1>2, <1>7, Entry
    <2> QED
        BY <1>7, <2>1
<1> QED
    BY <1>10, <1>11, <1>12

\* How the line changes.
LEMMA LineStays ==
    ASSUME TInv, NEW c \in Chain, LineKept(c)
    PROVE  Line(c)' = Line(c)
<1>1. LineSize(c)' = LineSize(c) /\ LineSize(c) \in Nat
    BY LineType DEF LineKept, LineSize
<1>2. ASSUME NEW n \in 1 .. LineSize(c) PROVE LineAt(c, n)' = LineAt(c, n)
    <2>1. n - 1 \in Nat /\ (n # 1 => n - 2 \in Nat)
        BY <1>1
    <2> QED
        BY <2>1 DEF LineKept, LineAt
<1> QED
    BY <1>1, <1>2 DEF Line

\* Taking an image out of the ring leaves it first in the line.
LEMMA LineTaken ==
    ASSUME TInv, FInv, NEW c \in Chain, FlipTake(c)
    PROVE  Line(c)' = Line(c)
<1> SUFFICES ASSUME NEW n, n = InRing(c) PROVE Line(c)' = Line(c)
    OBVIOUS
<1>1. /\ n \in Nat /\ n > 0 /\ InRing(c)' = n - 1 /\ hand'[c] = Slot(c, 0)
      /\ \A m \in 0 .. n - 2 : Slot(c, m)' = Slot(c, m + 1)
    BY Leaves DEF FInv
<1>2. HasImage(c)' /\ ~HasImage(c)
    BY DEF FlipTake, HasImage, GoFlip, Set, TInv, TypeOK, TypeThreads
<1>3. LineSize(c)' = n /\ LineSize(c) = n
    BY <1>1, <1>2 DEF LineSize
<1>4. ASSUME NEW m \in 1 .. n PROVE LineAt(c, m)' = LineAt(c, m)
    <2>1. CASE m = 1
        BY <1>1, <1>2, <2>1 DEF LineAt
    <2>2. CASE m # 1
        <3>1. m - 2 \in 0 .. n - 2 /\ (m - 2) + 1 = m - 1
            BY <1>1, <2>2
        <3> QED
            BY <1>1, <1>2, <2>2, <3>1 DEF LineAt
    <2> QED
        BY <2>1, <2>2
<1> QED
    BY <1>3, <1>4 DEF Line

\* An image that enters the ring is last in the line.
LEMMA LineGrows ==
    ASSUME TInv, FInv, NEW c \in Chain, Enqueue(c)
    PROVE  Line(c)' = Append(Line(c), img[c])
<1> SUFFICES ASSUME NEW n, n = InRing(c) PROVE Line(c)' = Append(Line(c), img[c])
    OBVIOUS
<1>1. /\ n \in Nat /\ InRing(c)' = n + 1 /\ Slot(c, n)' = img[c]
      /\ \A m \in 0 .. n - 1 : Slot(c, m)' = Slot(c, m)
    BY Enters DEF FInv
<1>2. HasImage(c)' = HasImage(c) /\ hand' = hand
    BY DEF Enqueue, HasImage
<1>3. LineSize(c)' = LineSize(c) + 1 /\ LineSize(c) \in Nat
    BY <1>1, <1>2 DEF LineSize
<1>4. ASSUME NEW m \in 1 .. LineSize(c) PROVE LineAt(c, m)' = LineAt(c, m)
    <2>1. CASE HasImage(c)
        <3>1. m # 1 => m - 2 \in 0 .. n - 1
            BY <1>1, <2>1 DEF LineSize
        <3> QED
            BY <1>1, <1>2, <2>1, <3>1 DEF LineAt
    <2>2. CASE ~HasImage(c)
        <3>1. m - 1 \in 0 .. n - 1
            BY <1>1, <2>2 DEF LineSize
        <3> QED
            BY <1>1, <1>2, <2>2, <3>1 DEF LineAt
    <2> QED
        BY <2>1, <2>2
<1>5. ASSUME NEW m, m = LineSize(c) + 1 PROVE LineAt(c, m)' = img[c]
    <2>1. CASE HasImage(c)
        <3>1. m # 1 /\ m - 2 = n
            BY <1>1, <1>5, <2>1 DEF LineSize
        <3> QED
            BY <1>1, <1>2, <2>1, <3>1 DEF LineAt
    <2>2. CASE ~HasImage(c)
        <3>1. m - 1 = n
            BY <1>1, <1>5, <2>2 DEF LineSize
        <3> QED
            BY <1>1, <1>2, <2>2, <3>1 DEF LineAt
    <2> QED
        BY <2>1, <2>2
<1>6. Line(c)' \in Seq(Images(c)) /\ Len(Line(c)') = LineSize(c) + 1
    <2>1. \A m \in 1 .. LineSize(c) : LineAt(c, m) \in Images(c)
        BY LineType
    <2>2. img[c] \in Images(c)
        BY DEF TInv, TypeOK, TypeThreads
    <2>3. ASSUME NEW m \in 1 .. LineSize(c) + 1 PROVE LineAt(c, m)' \in Images(c)
        <3>1. m \in 1 .. LineSize(c) \/ m = LineSize(c) + 1
            BY <1>3
        <3> QED
            BY <1>4, <1>5, <2>1, <2>2, <3>1
    <2> QED
        BY <1>3, <2>3 DEF Line
<1>7. \A m \in 1 .. LineSize(c) + 1 : Line(c)'[m] = LineAt(c, m)'
    BY <1>3 DEF Line
<1>8. img[c] \in Images(c) /\ Line(c) \in Seq(Images(c)) /\ Len(Line(c)) = LineSize(c)
    BY LineType DEF TInv, TypeOK, TypeThreads
<1>9. /\ Append(Line(c), img[c]) \in Seq(Images(c)) /\ Len(Append(Line(c), img[c])) = LineSize(c) + 1
      /\ \A m \in 1 .. LineSize(c) : Append(Line(c), img[c])[m] = Line(c)[m]
      /\ Append(Line(c), img[c])[LineSize(c) + 1] = img[c]
    BY <1>8, AppendProperties
<1>10. \A m \in 1 .. LineSize(c) : Line(c)[m] = LineAt(c, m)
    BY LineType
<1>11. ASSUME NEW m \in 1 .. LineSize(c) + 1 PROVE Line(c)'[m] = Append(Line(c), img[c])[m]
    <2>1. m \in 1 .. LineSize(c) \/ m = LineSize(c) + 1
        BY <1>3
    <2> QED
        BY <1>4, <1>5, <1>7, <1>9, <1>10, <2>1
<1> QED
    BY <1>6, <1>9, <1>11, SeqEqual

\* The image that is shown is the first of the line.
LEMMA LineShrinks ==
    ASSUME TInv, NEW c \in Chain, FlipShow(c)
    PROVE  Line(c) # << >> /\ Line(c)' = Tail(Line(c))
<1>1. HasImage(c) /\ ~HasImage(c)'
    BY DEF FlipShow, HasImage, GoFlip, Set, TInv, TypeOK, TypeThreads
<1>2. InRing(c)' = InRing(c) /\ \A n \in Nat : Slot(c, n)' = Slot(c, n)
    BY DEF FlipShow, InRing, Slot
<1>3. LineSize(c) = InRing(c) + 1 /\ LineSize(c)' = InRing(c) /\ InRing(c) \in Nat
    BY <1>1, <1>2, Entry DEF LineSize
<1>4. ASSUME NEW m \in 1 .. InRing(c) PROVE LineAt(c, m)' = LineAt(c, m + 1)
    <2>1. m - 1 \in Nat /\ m + 1 # 1 /\ (m + 1) - 2 = m - 1
        BY <1>3
    <2> QED
        BY <1>1, <1>2, <2>1 DEF LineAt
<1>5. Line(c) \in Seq(Images(c)) /\ Len(Line(c)) = InRing(c) + 1
    BY <1>3, LineType
<1>6. Line(c) # << >>
    BY <1>3, <1>5
<1>7. /\ Tail(Line(c)) \in Seq(Images(c)) /\ Len(Tail(Line(c))) = InRing(c)
      /\ \A m \in 1 .. InRing(c) : Tail(Line(c))[m] = Line(c)[m + 1]
    <2>1. Len(Tail(Line(c))) = Len(Line(c)) - 1
        BY <1>5, <1>6, HeadTailProperties
    <2>2. Len(Tail(Line(c))) = InRing(c)
        BY <1>3, <1>5, <2>1
    <2> QED
        BY <1>5, <1>6, <2>2, HeadTailProperties
<1>8. Line(c)' \in Seq(Images(c)) /\ Len(Line(c)') = InRing(c)
    <2>1. ASSUME NEW m \in 1 .. InRing(c) PROVE LineAt(c, m)' \in Images(c)
        <3>1. m + 1 \in 1 .. LineSize(c)
            BY <1>3
        <3> QED
            BY <1>4, <3>1, LineType
    <2> QED
        BY <1>3, <2>1 DEF Line
<1>9. ASSUME NEW m \in 1 .. InRing(c) PROVE Line(c)'[m] = Tail(Line(c))[m]
    <2>1. Line(c)'[m] = LineAt(c, m)'
        BY <1>3 DEF Line
    <2>2. m + 1 \in 1 .. LineSize(c)
        BY <1>3
    <2>3. Line(c)[m + 1] = LineAt(c, m + 1)
        BY <2>2, LineType
    <2> QED
        BY <1>4, <1>7, <2>1, <2>3
<1>10. Line(c)' = Tail(Line(c))
    BY <1>7, <1>8, <1>9, SeqEqual
<1> QED
    BY <1>6, <1>10

\* The images the application has, until they are in the ring.
Owned(c) == held[c] \union (IF app[c] = "enqueue" THEN {img[c]} ELSE {})

\* Which steps change what the application has.
LEMMA OwnedMoves ==
    ASSUME TInv, FInv, NEW c \in Chain, ChainStep(c)
    PROVE  \/ Owned(c)' = Owned(c) /\ (Alive(c)' <=> Alive(c))
           \/ Create(c) \/ AcquireScan(c) \/ Enqueue(c) \/ Free(c)
<1>1. TypeThreads /\ TypeImages /\ ShapeOK /\ FlowOK(c)
    BY DEF TInv, TypeOK, FInv
<1>2. CASE Mark(c)
    <2>1. app[c] = "mark" /\ app'[c] = "enqueue" /\ img' = img /\ held'[c] = held[c] \ {img[c]}
        BY <1>1, <1>2 DEF Mark, GoApp, Set, TypeThreads, ShapeOK
    <2>2. img[c] \in held[c]
        BY <1>1, <2>1 DEF FlowOK, IdleOK
    <2> QED
        BY <2>1, <2>2 DEF Owned, Alive
<1>3. CASE (AppCall(c) \/ AppStep(c)) /\ ~Create(c) /\ ~AcquireScan(c) /\ ~Mark(c) /\ ~Enqueue(c) /\ ~Free(c)
    <2> USE DEF GoApp, Set, Return, AppCall, AppStep, Acquire, Present, Destroy, Deprecate, PostFlip,
            Deprecated, AcquireTake, AcquireSleep, AcquireNothing, AcquireCheck,
            AcquireLost, Look, Looked, Submit, SubmitFails, StartWait,
            DrainCount, DrainTake, DrainSleep, DrainDone, Sleep, Unused
    <2>1. UNCHANGED held
        BY <1>3
    <2>2. app[c] # "enqueue" /\ app'[c] # "enqueue" /\ Alive(c) /\ Alive(c)'
        BY <1>1, <1>3 DEF TypeThreads, Alive
    <2> QED
        BY <2>1, <2>2 DEF Owned
<1>4. CASE FlipStep(c) \/ Signal(c)
    <2>1. UNCHANGED <<held, app, img>>
        BY <1>4 DEF FlipStep, FlipTake, FlipFence, FlipFails, FlipLook, FlipFirst, FlipDrain,
            FlipDrainSleep, FlipBegin, FlipShow, FlipRelease, FlipPost, Sleep, Signal
    <2> QED
        BY <2>1 DEF Owned, Alive
<1> QED
    BY <1>2, <1>3, <1>4 DEF ChainStep

\* Presented is the line, for the swapchain alone.
LineOK == Presented(1) = Line(1)

\* Every step of a swapchain alone is a step of the queue, or none.
LEMMA StepShows ==
    ASSUME ChainCount = 1, ~MayFail, TInv, FInv, LineOK, LineOK', NEW c \in Chain, ChainStep(c)
    PROVE  [Queue!Next]_(Queue!vars)
<1>1. c = 1 /\ Chain = {1} /\ Current(1)
    BY DEF Chain, Current
<1>2. TypeThreads /\ TypeImages /\ ShapeOK /\ FlowOK(1) /\ Queued(1) = {"PENDING"} /\ Acquired(1) = {"ACQUIRED"}
    BY <1>1 DEF TInv, TypeOK, FInv, Queued, Acquired
<1>3. Presented(1) = Line(1) /\ Presented(1)' = Line(1)'
    BY DEF LineOK
<1>4. CASE Create(1)
    <2>1. app[1] = "none" /\ app'[1] = "idle" /\ UNCHANGED <<held, img>>
        BY <1>1, <1>2, <1>4 DEF Create, GoApp, Set, TypeThreads
    <2>2. LineKept(1)
        <3>1. ~Enqueue(1) /\ ~FlipTake(1) /\ ~FlipShow(1) /\ ~Free(1) /\ ~FlipLook(1)
            <4>1. flip[1] = "none"
                BY <1>2, <2>1 DEF FlowOK, IdleOK
            <4> QED
                BY <2>1, <4>1 DEF Enqueue, FlipTake, FlipShow, Free, FlipLook
        <3> QED
            BY <1>1, <3>1, LineMoves
    <2>3. Presented(1)' = Presented(1)
        BY <1>1, <1>3, <2>2, LineStays
    <2> QED
        BY <2>1, <2>3 DEF Queue!Next, Queue!Open
<1>5. CASE AcquireScan(1)
    <2>1. app[1] = "scan" /\ k[1] \in Images(1)
        BY <1>1, <1>2, <1>5, Sizes DEF AcquireScan, Images, TypeThreads
    <2>2. LineKept(1)
        <3>1. ~Enqueue(1) /\ ~FlipTake(1) /\ ~FlipShow(1) /\ ~Free(1) /\ ~FlipLook(1)
            <4>1. flip' = flip
                BY <1>5 DEF AcquireScan
            <4> QED
                BY <1>1, <1>2, <2>1, <4>1 DEF Enqueue, FlipTake, FlipShow, Free, FlipLook, GoFlip, Set, TypeThreads
        <3> QED
            BY <1>1, <3>1, LineMoves
    <2>3. Presented(1)' = Presented(1)
        BY <1>1, <1>3, <2>2, LineStays
    <2>4. CASE status[1][k[1]] = "FREE"
        <3>1. app'[1] = "idle" /\ held'[1] = held[1] \union {k[1]}
            BY <1>1, <1>2, <1>5, <2>4 DEF AcquireScan, Return, GoApp, Set, TypeThreads, ShapeOK
        <3>2. k[1] \notin held[1]
            BY <1>2, <2>4 DEF FlowOK, HeldOK
        <3>3. k[1] \notin Queue!Waiting
            <4> SUFFICES ASSUME NEW n \in DOMAIN Line(1) PROVE Line(1)[n] # k[1]
                BY <1>3 DEF Queue!Waiting
            <4>0. LineSize(1) \in Nat /\ n \in 1 .. LineSize(1)
                BY <1>1, LineType DEF Line
            <4>1. Line(1)[n] = LineAt(1, n)
                BY <1>1, <4>0, LineType
            <4>2. InRing(1) \in Nat
                BY <1>1, Entry
            <4>3. \A m \in 0 .. InRing(1) - 1 : status[1][Slot(1, m)] = "PENDING"
                BY <1>2 DEF FlowOK, RingOK, InQueue
            <4>4. HasImage(1) => status[1][hand[1]] = "PENDING"
                BY <1>2 DEF FlowOK, MovingOK, InQueue
            <4>5. status[1][LineAt(1, n)] = "PENDING"
                <5>1. CASE HasImage(1) /\ n = 1
                    BY <4>4, <5>1 DEF LineAt
                <5>2. CASE HasImage(1) /\ n # 1
                    <6>1. n - 2 \in 0 .. InRing(1) - 1
                        BY <4>0, <4>2, <5>2 DEF LineSize
                    <6> QED
                        BY <4>3, <5>2, <6>1 DEF LineAt
                <5>3. CASE ~HasImage(1)
                    <6>1. n - 1 \in 0 .. InRing(1) - 1
                        BY <4>0, <4>2, <5>3 DEF LineSize
                    <6> QED
                        BY <4>3, <5>3, <6>1 DEF LineAt
                <5> QED
                    BY <5>1, <5>2, <5>3
            <4> QED
                BY <2>4, <4>1, <4>5
        <3> QED
            BY <2>1, <2>3, <3>1, <3>2, <3>3 DEF Queue!Next, Queue!Acquire
    <2>5. CASE status[1][k[1]] # "FREE"
        <3>1. app' = app /\ held' = held /\ img' = img
            BY <1>5, <2>5 DEF AcquireScan
        <3> QED
            BY <2>3, <3>1 DEF Queue!vars
    <2> QED
        BY <2>4, <2>5
<1>6. CASE Enqueue(1)
    <2>1. app[1] = "enqueue" /\ app'[1] = "post" /\ held' = held
        BY <1>1, <1>2, <1>6 DEF Enqueue, GoApp, Set, TypeThreads
    <2>2. img[1] \notin held[1]
        BY <1>2, <2>1 DEF FlowOK, MovingOK, InQueue
    <2>3. Presented(1)' = Append(Presented(1), img[1])
        BY <1>1, <1>3, <1>6, LineGrows
    <2> QED
        BY <2>1, <2>2, <2>3 DEF Queue!Next, Queue!Present
<1>7. CASE Free(1)
    <2>1. app[1] = "idling" /\ app'[1] = "gone" /\ held'[1] = {} /\ flip'[1] = "dead" /\ flipSem'[1] = 0
        BY <1>1, <1>2, <1>7 DEF Free, GoApp, GoFlip, Set, TypeThreads, ShapeOK, TInv, TypeOK, TypeSemaphores
    <2>2. LineSize(1)' = 0
        BY <2>1 DEF LineSize, InRing, HasImage
    <2>3. Presented(1)' = << >>
        BY <1>3, <2>2 DEF Line
    <2> QED
        BY <2>1, <2>3 DEF Queue!Next, Queue!Close
<1>8. CASE ~Create(1) /\ ~AcquireScan(1) /\ ~Enqueue(1) /\ ~Free(1)
    <2>1. Owned(1)' = Owned(1) /\ (Alive(1)' <=> Alive(1))
        BY <1>1, <1>8, OwnedMoves
    <2>2. CASE LineKept(1) \/ FlipTake(1)
        <3>1. Presented(1)' = Presented(1)
            BY <1>1, <1>3, <2>2, LineStays, LineTaken
        <3> QED
            BY <2>1, <3>1 DEF Queue!vars, Owned, Alive
    <2>3. CASE FlipShow(1)
        <3>1. Presented(1) # << >> /\ Presented(1)' = Tail(Presented(1))
            BY <1>1, <1>3, <2>3, LineShrinks
        <3>2. Alive(1)
            <4>1. flip[1] = "show"
                BY <2>3 DEF FlipShow
            <4> QED
                BY <1>2, <4>1 DEF FlowOK, IdleOK, Alive
        <3> QED
            BY <2>1, <3>1, <3>2 DEF Queue!Next, Queue!Show, Owned, Alive
    <2>4. ~(FlipLook(1) /\ status[1][hand[1]] = "FREE")
        BY <1>2 DEF FlipLook, HasImage, FlowOK, MovingOK, InQueue
    <2> QED
        BY <1>1, <1>8, <2>2, <2>3, <2>4, LineMoves
<1> QED
    BY <1>4, <1>5, <1>6, <1>7, <1>8

\* A swapchain alone whose device does not fail is a queue: every image is shown in the
\* order of presentation and once, and none is handed out that is still waiting.  This
\* is the safety part of ShowsInOrder, for every number of images and every interleaving
\* of the application, the page flip thread and the device.
THEOREM ImplementsQueue == ChainCount = 1 /\ ~MayFail => (Spec => Queue!Spec)
<1> SUFFICES ASSUME ChainCount = 1, ~MayFail PROVE Spec => Queue!Spec
    OBVIOUS
<1>1. Init => TInv /\ FInv /\ PInv
    BY TInit, FInit, PInit
<1>2. TInv /\ FInv /\ PInv /\ [Next]_vars => TInv' /\ FInv' /\ PInv'
    BY TNext, FNext, PNext
<1>3. TInv /\ FInv /\ PInv => LineOK
    <2>1. 1 \in Chain /\ Current(1)
        BY DEF Chain, Current
    <2> QED
        BY <2>1, PresentedIsLine DEF LineOK
<1>4. Init /\ LineOK => Queue!Init
    <2> SUFFICES ASSUME Init, LineOK PROVE Queue!Init
        OBVIOUS
    <2>1. 1 \in Chain
        BY DEF Chain
    <2>2. app[1] = "none" /\ held[1] = {} /\ flip[1] = "none" /\ flipSem[1] = 0
        BY <2>1 DEF Init
    <2>3. LineSize(1) = 0
        BY <2>2 DEF LineSize, InRing, HasImage
    <2>4. Presented(1) = << >>
        BY <2>3 DEF LineOK, Line
    <2> QED
        BY <2>2, <2>4 DEF Queue!Init
<1>5. TInv /\ FInv /\ LineOK /\ LineOK' /\ [Next]_vars => [Queue!Next]_(Queue!vars)
    <2> SUFFICES ASSUME TInv, FInv, LineOK, LineOK', [Next]_vars PROVE [Queue!Next]_(Queue!vars)
        OBVIOUS
    <2>1. ASSUME NEW c \in Chain, ChainStep(c) PROVE [Queue!Next]_(Queue!vars)
        BY <2>1, StepShows
    <2>2. ASSUME UNCHANGED <<imageVars, ringVars, flipSem, appVars, flipVars>> PROVE UNCHANGED Queue!vars
        <3>1. Presented(1)' = Presented(1)
            BY <2>2 DEF Presented, Pending, HasImage, Slot, Images
        <3> QED
            BY <2>2, <3>1 DEF Queue!vars
    <2> QED
        BY <2>1, <2>2, Steps DEF SpuriousWakeup, vars
<1> QED
    BY <1>1, <1>2, <1>3, <1>4, <1>5, PTL DEF Spec, Queue!Spec
=============================================================================
