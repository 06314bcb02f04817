--------------------------- MODULE SwapchainProps ---------------------------
(***************************************************************************)
(* What the swapchains of the off-screen layer must guarantee: the ring    *)
(* and the statuses agree, images are shown in order, the semaphores count *)
(* what they are meant to count, and the assertions and comments of        *)
(* headless_swapchain.cpp hold.                                            *)
(***************************************************************************)
EXTENDS Swapchain, Sequences

AppPlaces ==
    {"none", "idle", "deprecate", "acquire", "taken", "scan", "presentLook", "submit",
     "mark", "enqueue", "post", "tearLook", "startWait", "count", "drain", "idling",
     "gone", "lost"}
FlipPlaces ==
    {"none", "sleep", "fence", "look", "first", "drain", "begin", "show", "shown",
     "post", "dead"}

TypeImages ==
    \A c \in Chain :
        /\ status[c] \in [Images(c) -> {"INVALID", "ACQUIRED", "PENDING", "FREE"}]
        /\ fence[c] \in [Images(c) -> {"unused", "submitted", "signalled"}]
        /\ held[c] \subseteq Images(c)
TypeRing ==
    \A c \in Chain :
        /\ ring[c] \in [Images(c) -> Images(c)]
        /\ head[c] \in Images(c) /\ tail[c] \in Images(c)
TypeSemaphores ==
    /\ flipSem \in [Chain -> Nat] /\ startSem \in [Chain -> Nat]
    /\ freeCount \in [Chain -> 0 .. CountModulus - 1]
    /\ wait \in [Thread -> {"awake", "asleep", "woken"}]
TypeChains ==
    /\ valid \in [Chain -> BOOLEAN] /\ first \in [Chain -> BOOLEAN]
    /\ ancestor \in [Chain -> {NoChain} \union Chain]
    /\ descendant \in [Chain -> {NoChain} \union Chain]
TypeThreads ==
    /\ app \in [Chain -> AppPlaces] /\ flip \in [Chain -> FlipPlaces]
    /\ timeout \in [Chain -> {"zero", "finite", "infinite"}]
    /\ \A c \in Chain : img[c] \in Images(c) /\ hand[c] \in Images(c)
    /\ k \in [Chain -> Nat] /\ started \in [Chain -> BOOLEAN]
    /\ left \in [Thread -> Int]

\* Every variable has its type; head and tail stay within the ring.
TypeOK == TypeImages /\ TypeRing /\ TypeSemaphores /\ TypeChains /\ TypeThreads

-----------------------------------------------------------------------------
(* The ring of pending images (the header says that it needs no lock).     *)

\* The page flip thread has an image that it has not shown yet.
HasImage(c) == flip[c] \in {"fence", "look", "first", "drain", "begin", "show"}

InRing(c) == flipSem[c] + (IF app[c] = "post" THEN 1 ELSE 0)
Slot(c, n) == ring[c][(head[c] + n) % ImageCount[c]]
Entries(c) == {Slot(c, n) : n \in 0 .. InRing(c) - 1}

\* Chain c has no descendant yet, or it is just being deprecated.
Current(c) == c + 1 \in Chain => app[c + 1] \in {"none", "deprecate"}

\* head, tail and the semaphore that connects them agree; the images between
\* them are different ones, none of them the application's or the one being
\* shown, so that no entry is overwritten before it has been read; and until
\* there is a descendant, which releases images, they are PENDING.
RingAgrees ==
    \A c \in Chain : app[c] \notin {"none", "gone"} =>
        /\ (head[c] + InRing(c)) % ImageCount[c] = tail[c]
        /\ Cardinality(Entries(c)) = InRing(c)
        /\ HasImage(c) => hand[c] \notin Entries(c)
        /\ \A i \in Entries(c) : i \notin held[c] /\ (Current(c) => status[c][i] = "PENDING")

\* The images of chain c on their way to the page flip thread, oldest first.
Pending(c) == {i \in Images(c) : status[c][i] = "PENDING"}
Presented(c) ==
    LET inHand == IF HasImage(c) THEN <<hand[c]>> ELSE << >>
        marked == IF app[c] = "enqueue" THEN 1 ELSE 0
        n      == Cardinality(Pending(c)) - marked - Len(inHand)
    IN  inHand \o [m \in 1 .. n |-> Slot(c, m - 1)]

\* A swapchain without ancestor and descendant is a queue that shows every
\* presented image, in the order of presentation and once.
Queue == INSTANCE PresentQueue WITH
           Image <- Images(1),
           open <- app[1] \notin {"none", "gone"},
           owned <- held[1] \union (IF app[1] = "enqueue" THEN {img[1]} ELSE {}),
           queue <- Presented(1)
ShowsInOrder == Queue!FairSpec

-----------------------------------------------------------------------------
(* The semaphore of the free images.                                       *)

\* Line 232, assert(m_count > 0): nothing is taken from an empty semaphore, and
\* so its count stays below the number of images.
CountNeverWraps == \A c \in Chain : freeCount[c] <= ImageCount[c]

\* Line 592, assert(i < m_num_swapchain_images): who has taken the semaphore
\* finds a FREE image.
AcquireFindsFree ==
    \A c \in Chain : ~(app[c] = "scan" /\ k[c] = ImageCount[c])

-----------------------------------------------------------------------------
(* Two swapchains, and their end.                                          *)

\* Line 686, assert(status == ACQUIRED): an image the application has acquired
\* stays its own until it presents it.
HeldIsAcquired ==
    \A c \in Chain : \A i \in held[c] : status[c][i] = "ACQUIRED"

\* Lines 474 to 476, "we don't want to delete vkImages and vkFences and
\* semaphores before the waiting is done": while the descendant waits for the
\* ancestor's pending images the ancestor exists.
AncestorAlive ==
    \A c \in Chain : flip[c] = "drain" => app[c - 1] # "gone"

\* Line 848, "Once all the pending buffers are flipped": when the waiting is
\* over no image is pending.
PendingFlipped ==
    [][\A c \in Chain : app[c] = "drain" /\ app'[c] = "idling" => Pending(c) = {}]_vars

\* Line 458, the destructor blocks "until all resources associated with this
\* swapchain are released": it comes to an end.
TeardownEnds ==
    \A c \in Chain :
        app[c] \in {"tearLook", "startWait", "count", "drain", "idling"} ~> app[c] = "gone"
=============================================================================
