---------------------------- MODULE RemoteImage ----------------------------
(***************************************************************************)
(* An image view of the feed (CustomImageView.swift).  A collection view   *)
(* cell is reused, so the view is asked for one URL after another while    *)
(* the downloads for the earlier ones still run; they end in any order,    *)
(* and each that brings data posts a block to the main queue.  Each view   *)
(* has a cache of its own, so the views do not interact and the module     *)
(* models one of them.                                                     *)
(***************************************************************************)
EXTENDS Naturals, Sequences, FiniteSets

CONSTANTS
    Urls,           \* URLs of images
    NoUrl,          \* none asked for yet, no image
    MaxDownloads    \* bound: downloads and blocks of one URL under way

ASSUME ImageAssumption ==
    /\ NoUrl \notin Urls
    /\ MaxDownloads \in Nat

VARIABLES
    imageUrlString, \* the URL the view is for
    image,          \* the image it shows, by its URL
    imageCache,     \* the URLs whose images the cache has
    downloads,      \* for each URL, the data tasks under way
    answers,        \* blocks on the main queue, with what they captured
    imageStopped,   \* the forced unwrap stopped the process
    lost            \* history: a download for this use of the view failed

imageVars == <<imageUrlString, image, imageCache, downloads, answers, imageStopped, lost>>

Answer == [url : Urls, readable : BOOLEAN]

ImageInit ==
    /\ imageUrlString = NoUrl
    /\ image = NoUrl
    /\ imageCache = {}
    /\ downloads = [u \in Urls |-> 0]
    /\ answers = <<>>
    /\ imageStopped = FALSE
    /\ lost = FALSE

\* The bound on what is under way, for a load that would add to it.
Affordable(u) ==
    \/ u \in imageCache
    \/ downloads[u] + Cardinality({i \in DOMAIN answers : answers[i].url = u})
         < MaxDownloads

----------------------------------------------------------------------------
\* Mutants of Load: the image of the earlier URL is left on screen; a hit
\* returns before the image is set.
LoadKeepsImage(u) ==
    /\ ~imageStopped /\ Affordable(u)
    /\ imageUrlString' = u
    /\ lost' = FALSE
    /\ IF u \in imageCache
         THEN image' = u /\ UNCHANGED downloads
         ELSE downloads' = [downloads EXCEPT ![u] = @ + 1] /\ UNCHANGED image
    /\ UNCHANGED <<imageCache, answers, imageStopped>>

LoadHitShowsNothing(u) ==
    /\ ~imageStopped /\ Affordable(u)
    /\ imageUrlString' = u
    /\ lost' = FALSE
    /\ image' = NoUrl
    /\ IF u \in imageCache
         THEN UNCHANGED downloads
         ELSE downloads' = [downloads EXCEPT ![u] = @ + 1]
    /\ UNCHANGED <<imageCache, answers, imageStopped>>

\* loadImageUsingUrlString: show the cached image, or no image and download.
Load(u) ==
    /\ ~imageStopped
    /\ Affordable(u)
    /\ imageUrlString' = u
    /\ lost' = FALSE
    /\ IF u \in imageCache
         THEN /\ image' = u
              /\ UNCHANGED downloads
         ELSE /\ image' = NoUrl
              /\ downloads' = [downloads EXCEPT ![u] = @ + 1]
    /\ UNCHANGED <<imageCache, answers, imageStopped>>

\* A data task ends with data, which need not be an image (an error page),
\* and posts its block ...
Downloaded(u) ==
    /\ ~imageStopped
    /\ downloads[u] > 0
    /\ downloads' = [downloads EXCEPT ![u] = @ - 1]
    /\ \E r \in BOOLEAN :
          answers' = Append(answers, [url |-> u, readable |-> r])
    /\ UNCHANGED <<imageUrlString, image, imageCache, imageStopped, lost>>

\* ... or with an error, which ends it.
DownloadFails(u) ==
    /\ ~imageStopped
    /\ downloads[u] > 0
    /\ downloads' = [downloads EXCEPT ![u] = @ - 1]
    /\ lost' = (lost \/ u = imageUrlString)
    /\ UNCHANGED <<imageUrlString, image, imageCache, answers, imageStopped>>

\* Mutant of RunAnswer: the block does not ask what the view is for.
RunAnswerUnguarded ==
    LET a == Head(answers)
    IN  /\ ~imageStopped /\ answers # <<>>
        /\ answers' = Tail(answers)
        /\ image' = IF a.readable THEN a.url ELSE NoUrl
        /\ IF a.readable
             THEN imageCache' = imageCache \cup {a.url} /\ UNCHANGED imageStopped
             ELSE imageStopped' = TRUE /\ UNCHANGED imageCache
        /\ UNCHANGED <<imageUrlString, downloads, lost>>

\* The block: show the image if the view is still for its URL, and cache it;
\* data that are no image stop the process there.
RunAnswer ==
    LET a == Head(answers)
    IN  /\ ~imageStopped
        /\ answers # <<>>
        /\ answers' = Tail(answers)
        /\ image' = IF imageUrlString # a.url THEN image
                    ELSE IF a.readable THEN a.url ELSE NoUrl
        /\ IF a.readable
             THEN imageCache' = imageCache \cup {a.url} /\ UNCHANGED imageStopped
             ELSE imageStopped' = TRUE /\ UNCHANGED imageCache
        /\ UNCHANGED <<imageUrlString, downloads, lost>>

\* NSCache drops an image when it likes.
Evict(u) ==
    /\ u \in imageCache
    /\ imageCache' = imageCache \ {u}
    /\ UNCHANGED <<imageUrlString, image, downloads, answers, imageStopped, lost>>

DownloadEnds(u) == Downloaded(u) \/ DownloadFails(u)

ImageNext ==
    \/ \E u \in Urls : Load(u) \/ DownloadEnds(u) \/ Evict(u)
    \/ RunAnswer

ImageSpec == ImageInit /\ [][ImageNext]_imageVars

\* Every data task ends (URLSession times out), and the main queue runs.
FairImageSpec ==
    ImageSpec /\ (\A u \in Urls : WF_imageVars(DownloadEnds(u))) /\ WF_imageVars(RunAnswer)

----------------------------------------------------------------------------
\* Every variable has its type.
ImageTypeOK ==
    /\ imageUrlString \in Urls \cup {NoUrl}
    /\ image \in Urls \cup {NoUrl}
    /\ imageCache \subseteq Urls
    /\ downloads \in [Urls -> Nat]
    /\ answers \in Seq(Answer)
    /\ imageStopped \in BOOLEAN
    /\ lost \in BOOLEAN

\* However the downloads of a reused view overtake each other, it never shows
\* the image of a URL it is no longer for (loadImageUsingUrlString).
OwnImage == image # NoUrl => image = imageUrlString

\* A view without its image still waits for it, unless a download failed:
\* no order of reuse, answers and evictions leaves a cell blank for good.
Awaited ==
    \/ downloads[imageUrlString] > 0
    \/ \E i \in DOMAIN answers : answers[i].url = imageUrlString
ShowsOrWaits ==
    imageUrlString # NoUrl /\ image = NoUrl /\ ~lost /\ ~imageStopped => Awaited

\* The image of the URL the view is for gets to the screen.
ImageArrives ==
    \A u \in Urls :
        imageUrlString = u ~> image = u \/ lost \/ imageStopped \/ imageUrlString # u

=============================================================================
