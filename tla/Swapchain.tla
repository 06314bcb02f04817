------------------------------ MODULE Swapchain ------------------------------
(***************************************************************************)
(* The swapchains of the off-screen layer                                  *)
(* (layersvt/offscreenlayer/headless_swapchain.cpp).                       *)
(*                                                                         *)
(* The application acquires images, presents them, replaces a swapchain by *)
(* a new one (its descendant) and destroys swapchains; every swapchain has *)
(* a page flip thread that takes the presented images out of a ring, waits *)
(* for their fences and makes them FREE again.  Three semaphores connect   *)
(* the two: m_page_flip_semaphore counts the images in the ring,           *)
(* m_free_image_semaphore (a timed_sem: mutex, condition variable and      *)
(* count) the free images, and m_start_present_semaphore tells the         *)
(* destructor of the ancestor that presenting has begun.  No mutex guards  *)
(* the statuses of the images.                                             *)
(*                                                                         *)
(* Chain c + 1 is created with chain c as its oldSwapchain, if that still  *)
(* exists.  The application keeps to the rules of Vulkan: it presents only *)
(* images it has acquired, acquires none from a retired swapchain, and     *)
(* never uses one swapchain in two threads at once.                        *)
(***************************************************************************)
EXTENDS Integers, FiniteSets

CONSTANTS
    ChainCount,       \* number of swapchains, created one after the other
    ImageCount,       \* m_num_swapchain_images of each of them
    CountModulus,     \* 2^32: m_count of timed_sem is an unsigned int
    OneThread,        \* does the application call Vulkan from one thread only?
    SpuriousWakeups,  \* may pthread_cond_wait return without a signal?
    MayFail           \* may submitting or waiting for a fence fail (device lost)?

ASSUME ConstantsAssumption ==
    /\ ChainCount \in Nat \ {0}
    /\ ImageCount \in [1 .. ChainCount -> Nat \ {0}]
    /\ CountModulus \in Nat
    /\ \A c \in 1 .. ChainCount : CountModulus > ImageCount[c] + 1
    /\ {OneThread, SpuriousWakeups, MayFail} \subseteq BOOLEAN

Chain == 1 .. ChainCount
NoChain == 0
Images(c) == 0 .. ImageCount[c] - 1

\* The thread of the application that uses chain c, and c's page flip thread.
App(c) == <<"app", c>>
Flip(c) == <<"flip", c>>
Thread == {"app", "flip"} \X Chain

VARIABLES
    status, fence,            \* swapchain_image.status and .present_fence
    ring, head, tail,         \* m_pending_buffer_pool
    flipSem, startSem,        \* m_page_flip_semaphore, m_start_present_semaphore
    freeCount, wait,          \* m_free_image_semaphore: m_count, who sleeps on m_cond
    valid, first,             \* m_is_valid, m_first_present
    ancestor, descendant,     \* m_ancestor, m_descendant
    app, timeout, img, k, started,  \* the application: place and locals
    held,                     \* the images it has acquired and not presented
    flip, hand,               \* the page flip thread: place, pendingIndex
    left                      \* wait of wait_for_pending_buffers, per thread

imageVars == <<status, fence>>
ringVars == <<ring, head, tail>>
semVars == <<freeCount, wait>>
flagVars == <<valid, first>>
linkVars == <<ancestor, descendant>>
callVars == <<timeout, img, k, started>>
appVars == <<app, callVars, held>>
flipVars == <<flip, hand>>
vars == <<imageVars, ringVars, flipSem, startSem, semVars, flagVars, linkVars,
          appVars, flipVars, left>>

Set(f, c, value) == [f EXCEPT ![c] = value]
SetStatus(c, i, value) == status' = [status EXCEPT ![c][i] = value]
\* release_present_image: the image and its fence are destroyed.
Release(c, i) ==
    SetStatus(c, i, "INVALID") /\ fence' = [fence EXCEPT ![c][i] = "unused"]
GoApp(c, place) == app' = Set(app, c, place)
GoFlip(c, place) == flip' = Set(flip, c, place)
\* A call returns; its locals are gone.
Return(c) ==
    /\ GoApp(c, "idle")
    /\ timeout' = Set(timeout, c, "zero") /\ img' = Set(img, c, 0)
    /\ k' = Set(k, c, 0) /\ started' = Set(started, c, FALSE)

Init ==
    /\ status = [c \in Chain |-> [i \in Images(c) |-> "INVALID"]]
    /\ fence = [c \in Chain |-> [i \in Images(c) |-> "unused"]]
    /\ ring = [c \in Chain |-> [i \in Images(c) |-> 0]]
    /\ head = [c \in Chain |-> 0] /\ tail = [c \in Chain |-> 0]
    /\ flipSem = [c \in Chain |-> 0] /\ startSem = [c \in Chain |-> 0]
    /\ freeCount = ImageCount
    /\ wait = [t \in Thread |-> "awake"]
    /\ valid = [c \in Chain |-> FALSE] /\ first = [c \in Chain |-> TRUE]
    /\ ancestor = [c \in Chain |-> NoChain]
    /\ descendant = [c \in Chain |-> NoChain]
    /\ app = [c \in Chain |-> "none"] /\ timeout = [c \in Chain |-> "zero"]
    /\ img = [c \in Chain |-> 0] /\ k = [c \in Chain |-> 0]
    /\ started = [c \in Chain |-> FALSE]
    /\ held = [c \in Chain |-> {}]
    /\ flip = [c \in Chain |-> "none"] /\ hand = [c \in Chain |-> 0]
    /\ left = [t \in Thread |-> 0]

-----------------------------------------------------------------------------
(* timed_sem.  Its wait blocks on the condition variable once, without     *)
(* looking at m_count again; it is called by acquire_next_image and by     *)
(* wait_for_pending_buffers, there by the destructor or, for the ancestor, *)
(* by the page flip thread of the descendant.                              *)

SemOf(t) == IF t[1] = "app" THEN t[2] ELSE t[2] - 1

Decrement(count) == (count - 1) % CountModulus

\* Mutant of CanTake: the count is not looked at.
CanTakeAnyway(t) == wait[t] # "asleep"

\* wait succeeds: there is something to take, or the thread has been woken.
CanTake(t) ==
    \/ wait[t] = "awake" /\ freeCount[SemOf(t)] > 0
    \/ wait[t] = "woken"

Take(t) ==
    /\ CanTake(t)
    /\ freeCount' = [freeCount EXCEPT ![SemOf(t)] = Decrement(@)]
    /\ wait' = Set(wait, t, "awake")

Sleep(t) ==
    /\ wait[t] = "awake" /\ freeCount[SemOf(t)] = 0
    /\ wait' = Set(wait, t, "asleep")
    /\ UNCHANGED <<imageVars, ringVars, flipSem, startSem, freeCount, flagVars,
                   linkVars, appVars, flipVars, left>>

Post(c) ==
    LET sleepers == {t \in Thread : wait[t] = "asleep" /\ SemOf(t) = c}
    IN  /\ freeCount' = [freeCount EXCEPT ![c] = (@ + 1) % CountModulus]
        /\ IF sleepers = {} THEN UNCHANGED wait
           ELSE \E t \in sleepers : wait' = Set(wait, t, "woken")

SpuriousWakeup(t) ==
    /\ SpuriousWakeups /\ wait[t] = "asleep"
    /\ wait' = Set(wait, t, "woken")
    /\ UNCHANGED <<imageVars, ringVars, flipSem, startSem, freeCount, flagVars,
                   linkVars, appVars, flipVars, left>>

\* Mutant of ToDrain: the images the application holds are waited for too.
ToDrainAll(c) == ImageCount[c] - 1

\* wait_for_pending_buffers: how many times the semaphore has to be taken.
ToDrain(c) == ImageCount[c] - Cardinality({i \in Images(c) : status[c][i] = "ACQUIRED"}) - 1

-----------------------------------------------------------------------------
(* The application.                                                        *)

Resting == {"none", "idle", "gone"}

\* A call on chain c may begin: no other call on it is going on (nor one that
\* names it as oldSwapchain), and with one thread no other call at all.
Unused(c) ==
    /\ app[c] = "idle"
    /\ \A d \in Chain : app[d] # "deprecate" /\ (OneThread => app[d] \in Resting)

\* What the application and the page flip thread of another chain read only.
appRest == <<ringVars, startSem, first, linkVars, flipVars, left>>

\* CreateSwapchainKHR, swapchain::init: all images FREE, the thread started.  A
\* creation that fails ends before it touches the old swapchain.
Create(c) ==
    LET replaces == c > 1 /\ app[c - 1] = "idle"
    IN  /\ app[c] = "none" /\ (c > 1 => app[c - 1] \in {"idle", "gone"})
        /\ OneThread => \A d \in Chain : app[d] \in Resting
        /\ status' = Set(status, c, [i \in Images(c) |-> "FREE"])
        /\ GoFlip(c, "sleep")
        /\ ancestor' = Set(ancestor, c, IF replaces THEN c - 1 ELSE NoChain)
        /\ valid' = Set(valid, c, TRUE)
        /\ GoApp(c, IF replaces THEN "deprecate" ELSE "idle")
        /\ UNCHANGED <<fence, ringVars, flipSem, startSem, semVars, first,
                       descendant, callVars, held, hand, left>>

\* deprecate: the images of the ancestor that are FREE are released at once.
Deprecate(c) ==
    /\ app[c] = "deprecate" /\ k[c] < ImageCount[c - 1]
    /\ IF status[c - 1][k[c]] = "FREE" THEN Release(c - 1, k[c])
                                       ELSE UNCHANGED imageVars
    /\ k' = Set(k, c, k[c] + 1)
    /\ UNCHANGED <<flipSem, semVars, valid, appRest, app, timeout, img, started, held>>

Deprecated(c) ==
    /\ app[c] = "deprecate" /\ k[c] = ImageCount[c - 1]
    /\ descendant' = Set(descendant, c - 1, c)
    /\ Return(c)
    /\ UNCHANGED <<imageVars, ringVars, flipSem, startSem, semVars, flagVars,
                   ancestor, held, flipVars, left>>

\* acquire_next_image of a swapchain that has not been replaced.  Waiting for
\* ever is allowed only while the application does not hold all images.
Acquire(c) ==
    /\ Unused(c) /\ (c < ChainCount => app[c + 1] = "none")
    /\ \E limit \in {"zero", "finite", "infinite"} :
         /\ limit = "infinite" => held[c] # Images(c)
         /\ timeout' = Set(timeout, c, limit)
    /\ GoApp(c, "acquire")
    /\ UNCHANGED <<imageVars, flipSem, semVars, valid, appRest, img, k, started, held>>

AcquireTake(c) ==
    /\ app[c] = "acquire" /\ Take(App(c))
    /\ GoApp(c, "taken")
    /\ UNCHANGED <<imageVars, flipSem, valid, appRest, callVars, held>>

AcquireSleep(c) == app[c] = "acquire" /\ timeout[c] # "zero" /\ Sleep(App(c))

\* VK_NOT_READY, VK_TIMEOUT.
AcquireNothing(c) ==
    /\ app[c] = "acquire"
    /\ \/ timeout[c] = "zero" /\ wait[App(c)] = "awake" /\ freeCount[c] = 0
       \/ timeout[c] = "finite" /\ wait[App(c)] = "asleep"
    /\ wait' = Set(wait, App(c), "awake")
    /\ Return(c)
    /\ UNCHANGED <<imageVars, flipSem, freeCount, valid, appRest, held>>

AcquireCheck(c) ==
    /\ app[c] = "taken"
    /\ IF valid[c] THEN GoApp(c, "scan") /\ UNCHANGED callVars ELSE Return(c)
    /\ UNCHANGED <<imageVars, flipSem, semVars, valid, appRest, held>>

\* The images are looked at one by one; the first FREE one is taken.
AcquireScan(c) ==
    /\ app[c] = "scan" /\ k[c] < ImageCount[c]
    /\ IF status[c][k[c]] = "FREE"
       THEN /\ SetStatus(c, k[c], "ACQUIRED")
            /\ held' = [held EXCEPT ![c] = @ \union {k[c]}]
            /\ Return(c)
       ELSE k' = Set(k, c, k[c] + 1) /\ UNCHANGED <<status, held, app, timeout, img, started>>
    /\ UNCHANGED <<fence, flipSem, semVars, valid, appRest>>

\* No image is FREE: an index nobody has written is returned.
AcquireLost(c) ==
    /\ app[c] = "scan" /\ k[c] = ImageCount[c]
    /\ GoApp(c, "lost")
    /\ UNCHANGED <<imageVars, flipSem, semVars, valid, appRest, callVars, held>>

\* queue_present, of an image that has been acquired.
Present(c) ==
    /\ Unused(c)
    /\ \E i \in held[c] : img' = Set(img, c, i)
    /\ GoApp(c, IF descendant[c] # NoChain THEN "presentLook" ELSE "submit")
    /\ UNCHANGED <<imageVars, flipSem, semVars, valid, appRest, timeout, k, started, held>>

\* Has the descendant started presenting?  Asked by queue_present and teardown,
\* image by image, through a pointer read once (chain c + 1 is the descendant of
\* c).  No image is ever PRESENTED in the headless swapchain.
Look(c) ==
    /\ app[c] \in {"presentLook", "tearLook"} /\ ~started[c] /\ k[c] < ImageCount[c + 1]
    /\ started' = Set(started, c, status[c + 1][k[c]] = "PENDING")
    /\ k' = Set(k, c, k[c] + 1)
    /\ UNCHANGED <<imageVars, flipSem, semVars, valid, appRest, app, timeout, img, held>>

Looked(c) ==
    /\ app[c] \in {"presentLook", "tearLook"} /\ (started[c] \/ k[c] = ImageCount[c + 1])
    /\ GoApp(c, IF app[c] = "presentLook" THEN "submit"
                ELSE IF started[c] THEN "startWait" ELSE "count")
    /\ UNCHANGED <<imageVars, flipSem, semVars, valid, appRest, callVars, held>>

\* Resets the fence and submits; an image that is not ACQUIRED has none.
Submit(c) ==
    /\ app[c] = "submit"
    /\ IF status[c][img[c]] = "ACQUIRED"
       THEN fence' = [fence EXCEPT ![c][img[c]] = "submitted"] /\ GoApp(c, "mark")
       ELSE UNCHANGED fence /\ GoApp(c, "lost")
    /\ UNCHANGED <<status, flipSem, semVars, valid, appRest, callVars, held>>

SubmitFails(c) ==
    /\ app[c] = "submit" /\ MayFail
    /\ Return(c)
    /\ UNCHANGED <<imageVars, flipSem, semVars, valid, appRest, held>>

Mark(c) ==
    /\ app[c] = "mark"
    /\ SetStatus(c, img[c], IF started[c] THEN "FREE" ELSE "PENDING")
    /\ held' = [held EXCEPT ![c] = @ \ {img[c]}]
    /\ GoApp(c, "enqueue")
    /\ UNCHANGED <<fence, flipSem, semVars, valid, appRest, callVars>>

\* Mutant of Enqueue: the tail does not wrap around.
EnqueueNoWrap(c) ==
    /\ app[c] = "enqueue"
    /\ ring' = [ring EXCEPT ![c][tail[c]] = img[c]]
    /\ tail' = Set(tail, c, tail[c] + 1)
    /\ GoApp(c, "post")
    /\ UNCHANGED <<imageVars, head, flipSem, startSem, semVars, flagVars, linkVars,
                   callVars, held, flipVars, left>>

Enqueue(c) ==
    /\ app[c] = "enqueue"
    /\ ring' = [ring EXCEPT ![c][tail[c]] = img[c]]
    /\ tail' = Set(tail, c, (tail[c] + 1) % ImageCount[c])
    /\ GoApp(c, "post")
    /\ UNCHANGED <<imageVars, head, flipSem, startSem, semVars, flagVars, linkVars,
                   callVars, held, flipVars, left>>

PostFlip(c) ==
    /\ app[c] = "post"
    /\ flipSem' = Set(flipSem, c, flipSem[c] + 1)
    /\ Return(c)
    /\ UNCHANGED <<imageVars, semVars, valid, appRest, held>>

\* DestroySwapchainKHR, swapchain::teardown.
Destroy(c) ==
    /\ Unused(c)
    /\ GoApp(c, IF descendant[c] # NoChain THEN "tearLook" ELSE "count")
    /\ UNCHANGED <<imageVars, flipSem, semVars, valid, appRest, callVars, held>>

\* Mutant of StartWait: the semaphore of the descendant is not waited for.
StartWaitNot(c) ==
    /\ app[c] = "startWait"
    /\ GoApp(c, "idling")
    /\ UNCHANGED <<imageVars, flipSem, semVars, valid, appRest, callVars, held>>

StartWait(c) ==
    /\ app[c] = "startWait" /\ startSem[c + 1] > 0
    /\ startSem' = Set(startSem, c + 1, startSem[c + 1] - 1)
    /\ GoApp(c, "idling")
    /\ UNCHANGED <<imageVars, ringVars, flipSem, semVars, flagVars, linkVars,
                   callVars, held, flipVars, left>>

DrainCount(c) ==
    /\ app[c] = "count"
    /\ left' = Set(left, App(c), ToDrain(c))
    /\ GoApp(c, "drain")
    /\ UNCHANGED <<imageVars, ringVars, flipSem, startSem, semVars, flagVars,
                   linkVars, callVars, held, flipVars>>

DrainTake(c) ==
    /\ app[c] = "drain" /\ left[App(c)] > 0 /\ Take(App(c))
    /\ left' = Set(left, App(c), left[App(c)] - 1)
    /\ UNCHANGED <<imageVars, ringVars, flipSem, startSem, flagVars, linkVars,
                   appVars, flipVars>>

DrainSleep(c) == app[c] = "drain" /\ left[App(c)] > 0 /\ Sleep(App(c))

DrainDone(c) ==
    /\ app[c] = "drain" /\ left[App(c)] <= 0
    /\ GoApp(c, "idling")
    /\ UNCHANGED <<imageVars, flipSem, semVars, valid, appRest, callVars, held>>

\* vkQueueWaitIdle has returned.  The signal ends the page flip thread wherever
\* it is; the neighbours forget the swapchain; its images, its semaphores and its
\* ring are gone.
Free(c) ==
    /\ app[c] = "idling" /\ \A i \in Images(c) : fence[c][i] # "submitted"
    /\ GoApp(c, "gone") /\ GoFlip(c, "dead") /\ wait' = Set(wait, Flip(c), "awake")
    /\ ancestor' = [d \in Chain |-> IF d = descendant[c] THEN NoChain ELSE ancestor[d]]
    /\ descendant' = [d \in Chain |-> IF d = ancestor[c] THEN NoChain ELSE descendant[d]]
    /\ status' = Set(status, c, [i \in Images(c) |-> "INVALID"])
    /\ fence' = Set(fence, c, [i \in Images(c) |-> "unused"])
    /\ held' = Set(held, c, {})
    /\ ring' = Set(ring, c, [i \in Images(c) |-> 0])
    /\ head' = Set(head, c, 0) /\ tail' = Set(tail, c, 0)
    /\ flipSem' = Set(flipSem, c, 0) /\ startSem' = Set(startSem, c, 0)
    /\ freeCount' = Set(freeCount, c, 0)
    /\ valid' = Set(valid, c, FALSE) /\ first' = Set(first, c, TRUE)
    /\ hand' = Set(hand, c, 0)
    /\ left' = Set(Set(left, App(c), 0), Flip(c), 0)
    /\ UNCHANGED callVars

-----------------------------------------------------------------------------
(* The page flip thread: page_flip_thread, present_image, unpresent_image. *)

flipRest == <<ringVars, flipSem, linkVars, appVars>>

\* Mutant of FlipTake: the head is not moved on.
FlipTakeAgain(c) ==
    /\ flip[c] = "sleep" /\ flipSem[c] > 0
    /\ flipSem' = Set(flipSem, c, flipSem[c] - 1)
    /\ hand' = Set(hand, c, ring[c][head[c]])
    /\ GoFlip(c, "fence")
    /\ UNCHANGED <<imageVars, ringVars, startSem, semVars, flagVars, linkVars,
                   appVars, left>>

FlipTake(c) ==
    /\ flip[c] = "sleep" /\ flipSem[c] > 0
    /\ flipSem' = Set(flipSem, c, flipSem[c] - 1)
    /\ hand' = Set(hand, c, ring[c][head[c]])
    /\ head' = Set(head, c, (head[c] + 1) % ImageCount[c])
    /\ GoFlip(c, "fence")
    /\ UNCHANGED <<imageVars, ring, tail, startSem, semVars, flagVars, linkVars,
                   appVars, left>>

FlipFence(c) ==
    /\ flip[c] = "fence" /\ fence[c][hand[c]] = "signalled"
    /\ GoFlip(c, "look")
    /\ UNCHANGED <<imageVars, startSem, semVars, flagVars, flipRest, hand, left>>

\* vkWaitForFences fails: the image stays as it is.
FlipFails(c) ==
    /\ flip[c] = "fence" /\ MayFail
    /\ valid' = Set(valid, c, FALSE)
    /\ GoFlip(c, "post")
    /\ UNCHANGED <<imageVars, startSem, semVars, first, flipRest, hand, left>>

\* FREE: the descendant has started presenting, the image is released.
FlipLook(c) ==
    /\ flip[c] = "look"
    /\ IF status[c][hand[c]] = "FREE"
       THEN Release(c, hand[c]) /\ GoFlip(c, "post")
       ELSE UNCHANGED imageVars /\ GoFlip(c, IF first[c] THEN "first" ELSE "show")
    /\ UNCHANGED <<startSem, semVars, flagVars, flipRest, hand, left>>

\* The first image: wait for the pending images of the ancestor.
FlipFirst(c) ==
    /\ flip[c] = "first"
    /\ left' = IF ancestor[c] = NoChain THEN left
               ELSE Set(left, Flip(c), ToDrain(ancestor[c]))
    /\ GoFlip(c, IF ancestor[c] = NoChain THEN "begin" ELSE "drain")
    /\ UNCHANGED <<imageVars, startSem, semVars, flagVars, flipRest, hand>>

FlipDrain(c) ==
    /\ flip[c] = "drain" /\ left[Flip(c)] > 0 /\ Take(Flip(c))
    /\ left' = Set(left, Flip(c), left[Flip(c)] - 1)
    /\ UNCHANGED <<imageVars, startSem, flagVars, flipRest, flipVars>>

FlipDrainSleep(c) == flip[c] = "drain" /\ left[Flip(c)] > 0 /\ Sleep(Flip(c))

FlipBegin(c) ==
    /\ flip[c] = "begin" \/ (flip[c] = "drain" /\ left[Flip(c)] <= 0)
    /\ startSem' = Set(startSem, c, startSem[c] + 1)
    /\ first' = Set(first, c, FALSE)
    /\ GoFlip(c, "show")
    /\ UNCHANGED <<imageVars, semVars, valid, flipRest, hand, left>>

\* Mutant of FlipShow: the image that has been shown does not become FREE.
FlipShowNot(c) ==
    /\ flip[c] = "show"
    /\ GoFlip(c, "shown")
    /\ UNCHANGED <<imageVars, startSem, semVars, flagVars, flipRest, hand, left>>

\* unpresent_image: what has been shown is FREE at once.
FlipShow(c) ==
    /\ flip[c] = "show"
    /\ SetStatus(c, hand[c], "FREE")
    /\ GoFlip(c, "shown")
    /\ UNCHANGED <<fence, startSem, semVars, flagVars, flipRest, hand, left>>

\* Once there is a descendant the image is released.
FlipRelease(c) ==
    /\ flip[c] = "shown"
    /\ IF descendant[c] # NoChain THEN Release(c, hand[c])
                                  ELSE UNCHANGED imageVars
    /\ GoFlip(c, "post")
    /\ UNCHANGED <<startSem, semVars, flagVars, flipRest, hand, left>>

FlipPost(c) ==
    /\ flip[c] = "post" /\ Post(c)
    /\ GoFlip(c, "sleep") /\ hand' = Set(hand, c, 0)
    /\ UNCHANGED <<imageVars, startSem, flagVars, flipRest, left>>

-----------------------------------------------------------------------------
\* The queue has done the work the present waits for.
Signal(c) ==
    /\ \E i \in Images(c) : fence[c][i] = "submitted"
                        /\ fence' = [fence EXCEPT ![c][i] = "signalled"]
    /\ UNCHANGED <<status, ringVars, flipSem, startSem, semVars, flagVars, linkVars,
                   appVars, flipVars, left>>

\* What the application may do, and what it does once it has begun.
AppCall(c) == Create(c) \/ Acquire(c) \/ Present(c) \/ Destroy(c)
AppStep(c) ==
    \/ Deprecate(c) \/ Deprecated(c)
    \/ AcquireTake(c) \/ AcquireSleep(c) \/ AcquireNothing(c) \/ AcquireCheck(c)
    \/ AcquireScan(c) \/ AcquireLost(c)
    \/ Look(c) \/ Looked(c) \/ Submit(c) \/ SubmitFails(c) \/ Mark(c)
    \/ Enqueue(c) \/ PostFlip(c)
    \/ StartWait(c) \/ DrainCount(c) \/ DrainTake(c) \/ DrainSleep(c)
    \/ DrainDone(c) \/ Free(c)
FlipStep(c) ==
    \/ FlipTake(c) \/ FlipFence(c) \/ FlipFails(c) \/ FlipLook(c) \/ FlipFirst(c)
    \/ FlipDrain(c) \/ FlipDrainSleep(c) \/ FlipBegin(c)
    \/ FlipShow(c) \/ FlipRelease(c) \/ FlipPost(c)

\* The application needs nothing more, or has lost an image.
Terminated ==
    /\ (\A c \in Chain : app[c] = "gone") \/ (\E c \in Chain : app[c] = "lost")
    /\ UNCHANGED vars

Next ==
    \/ \E c \in Chain : AppCall(c) \/ AppStep(c) \/ FlipStep(c) \/ Signal(c)
    \/ \E t \in Thread : SpuriousWakeup(t)
    \/ Terminated

Spec == Init /\ [][Next]_vars

\* Every thread that can go on does, and so does the queue; that the
\* application begins another call is not assumed.
Fairness ==
    \A c \in Chain : WF_vars(AppStep(c)) /\ WF_vars(FlipStep(c)) /\ WF_vars(Signal(c))

FairSpec == Spec /\ Fairness
=============================================================================
