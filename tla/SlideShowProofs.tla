-------------------------- MODULE SlideShowProofs --------------------------
(***************************************************************************)
(* Proofs that the photo on the screen is the one whose number is told,    *)
(* that a show that waits for its next photo has it coming, and that a     *)
(* stop reaches the thread it is meant for, for any library, any number    *)
(* of shows and of requests, and any photos that cannot be read.           *)
(***************************************************************************)
EXTENDS SlideShow, TLAPS

\* TypeOK in two parts.
DataOK ==
  /\ photos \in [Album -> 0 .. MaxPhotos]
  /\ mode \in Modes /\ position \in Positions
  /\ pendingStatus \in {"PLAYING", "PAUSED"}
  /\ player \in 0 .. MaxShows
  /\ doing \in Steps
  /\ astray \subseteq Shows /\ swallowed \subseteq Shows
  /\ requests \in 0 .. MaxRequests /\ faults \in 0 .. MaxFaults

ShowsOK == show \in Seq(ShowRecord) /\ Len(show) = player

\* What a callback relies on in its course.
CallbackInv ==
  /\ doing.step \in {"stop", "interrupt", "init", "pause"} => player # 0
  /\ doing.step = "replace" => doing.then = "replace"
  /\ doing.step \in {"stop", "interrupt", "replace"} /\ doing.then = "replace" =>
       photos[doing.album] > 0 /\ player < MaxShows
  /\ pendingStatus = "PLAYING" => player # 0 \/ doing.step = "replace"
  /\ doing.step \in {"interrupt", "replace"} /\ player # 0 => show[player].stopped

\* The picture, the index and the pictures asked for agree: while the thread is
\* before its move only the current photo and, once, the next one are asked for,
\* and the next one is there only when nothing else is being read.
Handshake(r) ==
  /\ \A k \in 1 .. Len(r.pool) :
       \/ r.pool[k] = r.currentIndex
       \/ r.at = "show" /\ k = Len(r.pool) /\ r.pool[k] = NextIndex(r)
  /\ r.poolAt # "idle" => r.pool # <<>>
  /\ r.poolAt = "current" => r.pool[1] = r.currentIndex
  /\ r.poolAt = "next" => r.pool[1] # r.currentIndex
  /\ r.at = "new" =>
       /\ r.nextImage = None /\ r.currentImage \in {None, r.currentIndex}
       /\ r.initialized \/ r.poolAt = "check" => r.currentImage = r.currentIndex
  /\ r.poolAt \in {"play", "start"} => r.at = "new" /\ r.initialized
  /\ r.at # "new" => r.initialized
  /\ r.at \in {"top", "paint", "show", "clear"} => r.currentImage = r.currentIndex
  /\ r.at \in {"top", "paint"} => r.nextImage = None
  /\ r.at \in {"image", "clear"} => r.nextImage = r.currentIndex
  /\ r.at = "show" =>
       /\ r.screen = r.currentIndex
       /\ r.nextImage # None =>
            /\ r.nextImage = NextIndex(r)
            /\ r.pool # <<>> => Len(r.pool) = 1 /\ r.poolAt = "check" /\ r.pool[1] = NextIndex(r)

\* What holds of every show, whatever its history.  Only the newest show may
\* run on; another show's pool can start it only if that is in its history.
ShowInv(s, r) ==
  /\ r.currentIndex < r.size
  /\ r.album = Uploads /\ ~r.deleted => r.size = photos[Uploads]
  /\ r.interrupted \/ r.at = "ended" => r.stopped
  /\ s # player => r.stopped
  /\ r.poolAt = "start" => r.plays \in 1 .. player /\ (r.plays # s => r.plays \in astray)

ShowsInv ==
  \A s \in 1 .. player :
    /\ ShowInv(s, show[s])
    /\ s \notin astray /\ ~show[s].stopped => Handshake(show[s])

IInv == DataOK /\ ShowsOK /\ CallbackInv /\ ShowsInv

\* The next photo is coming for as long as the thread may wait for it.
GoesOn(r) == r.at = "show" /\ r.nextImage = None /\ r.size > 1 => Coming(r)

\* Nothing but a failure or a deletion keeps the pool from storing a photo, and a
\* show of a deleted album is stopped by then.
WaitInv ==
  \A s \in 1 .. player :
    s \notin astray /\ ~show[s].stopped /\ faults = 0 => GoesOn(show[s])

DeletedInv ==
  \A s \in 1 .. player :
    show[s].deleted \/ (doing.step = "delete" /\ show[s].album = Uploads) => show[s].stopped

-----------------------------------------------------------------------------
(* One show.                                                                 *)

\* q is what a step of the show's own thread or pool makes of r.
Keeps(r, q) ==
  /\ q \in ShowRecord /\ q.currentIndex < q.size
  /\ q.album = r.album /\ q.size = r.size /\ q.deleted = r.deleted
  /\ r.stopped => q.stopped
  /\ q.interrupted \/ q.at = "ended" => q.stopped
  /\ q.poolAt = "start" => r.poolAt = "start" /\ q.plays = r.plays

LEMMA Bounds == MaxPhotos \in Nat /\ MaxShows \in Nat /\ MaxRequests \in Nat /\ MaxFaults \in Nat
  BY AlbumAssumption

LEMMA NextIndexIs ==
  ASSUME NEW r \in ShowRecord, r.currentIndex < r.size
  PROVE  NextIndex(r) \in Index /\ NextIndex(r) < r.size /\ NextIndex(r) # None
<1>1. /\ r.size \in Int /\ r.size <= MaxPhotos
      /\ r.currentIndex \in Int /\ 0 <= r.currentIndex
  BY Bounds DEF ShowRecord, Index
<1>2. NextIndex(r) \in Int /\ 0 <= NextIndex(r) /\ NextIndex(r) < r.size
  BY <1>1 DEF NextIndex
<1> QED
  BY <1>1, <1>2, Bounds DEF Index, None

LEMMA TopKeeps ==
  ASSUME NEW r \in ShowRecord, r.currentIndex < r.size, r.interrupted => r.stopped, r.at = "top",
         NEW q, q = [r EXCEPT !.at = IF r.stopped THEN "ended" ELSE "paint"]
  PROVE  /\ Keeps(r, q) /\ q.stopped = r.stopped
         /\ ~r.stopped /\ Handshake(r) => Handshake(q)
<1>1. q \in ShowRecord
  BY DEF ShowRecord
<1>2. /\ q.album = r.album /\ q.size = r.size /\ q.deleted = r.deleted
      /\ q.currentIndex = r.currentIndex /\ q.currentImage = r.currentImage
      /\ q.nextImage = r.nextImage /\ q.initialized = r.initialized
      /\ q.stopped = r.stopped /\ q.interrupted = r.interrupted /\ q.screen = r.screen
      /\ q.pool = r.pool /\ q.poolAt = r.poolAt /\ q.plays = r.plays
      /\ q.at = IF r.stopped THEN "ended" ELSE "paint"
  BY DEF ShowRecord
<1>3. Keeps(r, q)
  BY <1>1, <1>2 DEF Keeps
<1>4. ~r.stopped /\ Handshake(r) => Handshake(q)
  BY <1>2 DEF Handshake
<1> QED
  BY <1>2, <1>3, <1>4

\* The next photo is asked for behind those of the current one.
LEMMA RepaintKeeps ==
  ASSUME NEW r \in ShowRecord, r.currentIndex < r.size, r.at = "paint",
         NEW q, q = [r EXCEPT !.screen = r.currentImage, !.interrupted = FALSE,
                              !.pool = Append(@, NextIndex(r)), !.at = "show"]
  PROVE  /\ Keeps(r, q) /\ q.stopped = r.stopped
         /\ Handshake(r) => Handshake(q)
<1>1. NextIndex(r) \in Index /\ Append(r.pool, NextIndex(r)) \in Seq(Index)
  BY NextIndexIs DEF ShowRecord
<1>2. q \in ShowRecord
  BY <1>1 DEF ShowRecord
<1>3. /\ q.album = r.album /\ q.size = r.size /\ q.deleted = r.deleted
      /\ q.currentIndex = r.currentIndex /\ q.currentImage = r.currentImage
      /\ q.nextImage = r.nextImage /\ q.initialized = r.initialized
      /\ q.stopped = r.stopped /\ ~q.interrupted /\ q.screen = r.currentImage
      /\ q.pool = Append(r.pool, NextIndex(r)) /\ q.poolAt = r.poolAt /\ q.plays = r.plays
      /\ q.at = "show"
  BY DEF ShowRecord
<1>4. Keeps(r, q)
  BY <1>2, <1>3 DEF Keeps
<1>5. ASSUME Handshake(r) PROVE Handshake(q)
  <2>1. NextIndex(q) = NextIndex(r)
    BY <1>3 DEF NextIndex
  <2>2. r.pool \in Seq(Index) /\ Len(r.pool) \in Nat
    BY DEF ShowRecord
  <2>3. \A k \in 1 .. Len(r.pool) : r.pool[k] = r.currentIndex
    BY <1>5 DEF Handshake
  <2>4. /\ Len(q.pool) = Len(r.pool) + 1 /\ q.pool[Len(r.pool) + 1] = NextIndex(r)
        /\ \A k \in 1 .. Len(r.pool) : q.pool[k] = r.currentIndex
    BY <1>1, <1>3, <2>2, <2>3
  <2>5. q.pool # <<>>
    BY <2>2, <2>4
  <2>6. q.poolAt # "idle" => q.pool[1] = r.currentIndex
    BY <1>3, <1>5, <2>2, <2>4 DEF Handshake
  <2>7. q.poolAt # "next"
    BY <1>3, <1>5, <2>2, <2>3 DEF Handshake
  <2> QED
    BY <1>3, <1>5, <2>1, <2>2, <2>4, <2>5, <2>6, <2>7 DEF Handshake
<1> QED
  BY <1>3, <1>4, <1>5
\* The number moves first: the picture behind it is there, and nothing else is read.
LEMMA MoveIndexKeeps ==
  ASSUME NEW r \in ShowRecord, r.currentIndex < r.size,
         r.interrupted \/ r.at = "ended" => r.stopped,
         r.at = "show", r.nextImage # None,
         NEW q, q = [r EXCEPT !.currentIndex = NextIndex(r), !.at = "image"]
  PROVE  /\ Keeps(r, q) /\ q.stopped = r.stopped
         /\ Handshake(r) => Handshake(q)
<1>1. NextIndex(r) \in Index /\ NextIndex(r) < r.size
  BY NextIndexIs
<1>2. q \in ShowRecord /\ q.currentIndex < q.size
  BY <1>1 DEF ShowRecord
<1>3. /\ q.album = r.album /\ q.size = r.size /\ q.deleted = r.deleted
      /\ q.currentIndex = NextIndex(r) /\ q.currentImage = r.currentImage
      /\ q.nextImage = r.nextImage /\ q.initialized = r.initialized /\ q.at = "image"
      /\ q.stopped = r.stopped /\ q.interrupted = r.interrupted /\ q.screen = r.screen
      /\ q.pool = r.pool /\ q.poolAt = r.poolAt /\ q.plays = r.plays
  BY DEF ShowRecord
<1>4. Keeps(r, q)
  BY <1>2, <1>3 DEF Keeps
<1>5. ASSUME Handshake(r) PROVE Handshake(q)
  <2>1. r.pool \in Seq(Index) /\ Len(r.pool) \in Nat
    BY DEF ShowRecord
  <2>2. /\ r.nextImage = NextIndex(r) /\ r.initialized
        /\ r.pool # <<>> => Len(r.pool) = 1 /\ r.poolAt = "check" /\ r.pool[1] = NextIndex(r)
    BY <1>5 DEF Handshake
  <2>3. r.poolAt # "idle" => r.pool # <<>>
    BY <1>5 DEF Handshake
  <2>4. \A k \in 1 .. Len(q.pool) : q.pool[k] = q.currentIndex
    BY <1>3, <2>1, <2>2
  <2> QED
    BY <1>3, <2>2, <2>3, <2>4 DEF Handshake
<1> QED
  BY <1>3, <1>4, <1>5

\* Only a show that is stopped is interrupted.
LEMMA InterruptedKeeps ==
  ASSUME NEW r \in ShowRecord, r.currentIndex < r.size,
         r.interrupted \/ r.at = "ended" => r.stopped,
         r.at = "show", r.interrupted,
         NEW q, q = [r EXCEPT !.interrupted = FALSE, !.at = "top"]
  PROVE  /\ Keeps(r, q) /\ q.stopped = r.stopped
         /\ ~r.stopped /\ Handshake(r) => Handshake(q)
<1>1. q \in ShowRecord /\ q.currentIndex < q.size
  BY DEF ShowRecord
<1>2. /\ q.album = r.album /\ q.size = r.size /\ q.deleted = r.deleted
      /\ q.currentIndex = r.currentIndex /\ q.currentImage = r.currentImage
      /\ q.nextImage = r.nextImage /\ q.initialized = r.initialized /\ q.at = "top"
      /\ q.stopped = r.stopped /\ q.interrupted = FALSE /\ q.screen = r.screen
      /\ q.pool = r.pool /\ q.poolAt = r.poolAt /\ q.plays = r.plays
  BY DEF ShowRecord
<1>3. Keeps(r, q)
  BY <1>1, <1>2 DEF Keeps
<1>4. ASSUME ~r.stopped, Handshake(r) PROVE Handshake(q)
  BY <1>4
<1> QED
  BY <1>2, <1>3, <1>4

LEMMA MoveImageKeeps ==
  ASSUME NEW r \in ShowRecord, r.currentIndex < r.size,
         r.interrupted \/ r.at = "ended" => r.stopped,
         r.at = "image",
         NEW q, q = [r EXCEPT !.currentImage = r.nextImage, !.at = "clear"]
  PROVE  /\ Keeps(r, q) /\ q.stopped = r.stopped
         /\ Handshake(r) => Handshake(q)
<1>1. q \in ShowRecord /\ q.currentIndex < q.size
  BY DEF ShowRecord
<1>2. /\ q.album = r.album /\ q.size = r.size /\ q.deleted = r.deleted
      /\ q.currentIndex = r.currentIndex /\ q.currentImage = r.nextImage
      /\ q.nextImage = r.nextImage /\ q.initialized = r.initialized /\ q.at = "clear"
      /\ q.stopped = r.stopped /\ q.interrupted = r.interrupted /\ q.screen = r.screen
      /\ q.pool = r.pool /\ q.poolAt = r.poolAt /\ q.plays = r.plays
  BY DEF ShowRecord
<1>3. Keeps(r, q)
  BY <1>1, <1>2 DEF Keeps
<1>4. ASSUME Handshake(r) PROVE Handshake(q)
  BY <1>2, <1>4 DEF Handshake
<1> QED
  BY <1>2, <1>3, <1>4

LEMMA ClearNextKeeps ==
  ASSUME NEW r \in ShowRecord, r.currentIndex < r.size,
         r.interrupted \/ r.at = "ended" => r.stopped,
         r.at = "clear",
         NEW q, q = [r EXCEPT !.nextImage = None, !.at = "top"]
  PROVE  /\ Keeps(r, q) /\ q.stopped = r.stopped
         /\ Handshake(r) => Handshake(q)
<1>1. q \in ShowRecord /\ q.currentIndex < q.size
  BY DEF ShowRecord
<1>2. /\ q.album = r.album /\ q.size = r.size /\ q.deleted = r.deleted
      /\ q.currentIndex = r.currentIndex /\ q.currentImage = r.currentImage
      /\ q.nextImage = None /\ q.initialized = r.initialized /\ q.at = "top"
      /\ q.stopped = r.stopped /\ q.interrupted = r.interrupted /\ q.screen = r.screen
      /\ q.pool = r.pool /\ q.poolAt = r.poolAt /\ q.plays = r.plays
  BY DEF ShowRecord
<1>3. Keeps(r, q)
  BY <1>1, <1>2 DEF Keeps
<1>4. ASSUME Handshake(r) PROVE Handshake(q)
  BY <1>2, <1>4 DEF Handshake
<1> QED
  BY <1>2, <1>3, <1>4

\* A task of the pool ends; what it leaves is a shorter pool.
LEMMA DoneKeeps ==
  ASSUME NEW r \in ShowRecord, r.currentIndex < r.size,
         r.interrupted \/ r.at = "ended" => r.stopped,
         r.pool # <<>>,
         NEW q, q = Done(r)
  PROVE  /\ Keeps(r, q) /\ q.stopped = r.stopped
         /\ Handshake(r) => Handshake(q)
<1>1. Tail(r.pool) \in Seq(Index)
  BY DEF ShowRecord
<1>2. q \in ShowRecord /\ q.currentIndex < q.size
  BY <1>1 DEF ShowRecord, Done
<1>3. /\ q.album = r.album /\ q.size = r.size /\ q.deleted = r.deleted
      /\ q.currentIndex = r.currentIndex /\ q.currentImage = r.currentImage
      /\ q.nextImage = r.nextImage /\ q.initialized = r.initialized /\ q.at = r.at
      /\ q.stopped = r.stopped /\ q.interrupted = r.interrupted /\ q.screen = r.screen
      /\ q.pool = Tail(r.pool) /\ q.poolAt = "idle" /\ q.plays = r.plays
  BY DEF ShowRecord, Done
<1>4. Keeps(r, q)
  BY <1>2, <1>3 DEF Keeps
<1>5. ASSUME Handshake(r) PROVE Handshake(q)
  <2>1. r.pool \in Seq(Index) /\ Len(r.pool) \in Nat
    BY DEF ShowRecord
  <2>2. NextIndex(q) = NextIndex(r)
    BY <1>3 DEF NextIndex
  <2>3. /\ Len(q.pool) = Len(r.pool) - 1
        /\ \A k \in 1 .. Len(q.pool) : q.pool[k] = r.pool[k + 1] /\ k + 1 \in 1 .. Len(r.pool)
    BY <1>3, <2>1
  <2>4. \A k \in 1 .. Len(q.pool) :
          \/ q.pool[k] = q.currentIndex
          \/ q.at = "show" /\ k = Len(q.pool) /\ q.pool[k] = NextIndex(q)
    BY <1>3, <1>5, <2>1, <2>2, <2>3 DEF Handshake
  <2>5. r.at = "show" /\ r.nextImage # None => q.pool = <<>>
    BY <1>3, <1>5, <2>1, <2>3 DEF Handshake
  <2> QED
    BY <1>3, <1>5, <2>2, <2>4, <2>5 DEF Handshake
<1> QED
  BY <1>3, <1>4, <1>5

\* The picture is compared with the number: that of another photo is the next one's.
LEMMA GenerateKeeps ==
  ASSUME NEW r \in ShowRecord, r.currentIndex < r.size,
         r.interrupted \/ r.at = "ended" => r.stopped,
         r.pool # <<>>, r.poolAt = "idle",
         NEW q, q = [r EXCEPT !.poolAt =
                       IF r.currentIndex = Head(r.pool) THEN "current" ELSE "next"]
  PROVE  /\ Keeps(r, q) /\ q.stopped = r.stopped
         /\ Handshake(r) => Handshake(q)
<1>1. q \in ShowRecord /\ q.currentIndex < q.size
  BY DEF ShowRecord
<1>2. /\ q.album = r.album /\ q.size = r.size /\ q.deleted = r.deleted
      /\ q.currentIndex = r.currentIndex /\ q.currentImage = r.currentImage
      /\ q.nextImage = r.nextImage /\ q.initialized = r.initialized /\ q.at = r.at
      /\ q.stopped = r.stopped /\ q.interrupted = r.interrupted /\ q.screen = r.screen
      /\ q.pool = r.pool
      /\ q.poolAt = IF r.currentIndex = Head(r.pool) THEN "current" ELSE "next"
      /\ q.plays = r.plays
  BY DEF ShowRecord
<1>3. Keeps(r, q)
  BY <1>1, <1>2 DEF Keeps
<1>4. ASSUME Handshake(r) PROVE Handshake(q)
  <2>1. r.pool \in Seq(Index) /\ Len(r.pool) \in Nat /\ Len(r.pool) # 0
    BY DEF ShowRecord
  <2>2. NextIndex(q) = NextIndex(r)
    BY <1>2 DEF NextIndex
  <2>3. Head(r.pool) = r.pool[1]
    BY <2>1
  <2> QED
    BY <1>2, <1>4, <2>2, <2>3 DEF Handshake
<1> QED
  BY <1>2, <1>3, <1>4

\* A picture of the current photo, asked for once more or first.
LEMMA StoreCurrentKeeps ==
  ASSUME NEW r \in ShowRecord, r.currentIndex < r.size,
         r.interrupted \/ r.at = "ended" => r.stopped,
         r.pool # <<>>, r.poolAt = "current",
         NEW q, q = [r EXCEPT !.currentImage = Head(r.pool), !.poolAt = "check"]
  PROVE  /\ Keeps(r, q) /\ q.stopped = r.stopped
         /\ Handshake(r) => Handshake(q)
<1>1. Head(r.pool) \in Index
  BY DEF ShowRecord
<1>2. q \in ShowRecord /\ q.currentIndex < q.size
  BY <1>1 DEF ShowRecord
<1>3. /\ q.album = r.album /\ q.size = r.size /\ q.deleted = r.deleted
      /\ q.currentIndex = r.currentIndex /\ q.currentImage = Head(r.pool)
      /\ q.nextImage = r.nextImage /\ q.initialized = r.initialized /\ q.at = r.at
      /\ q.stopped = r.stopped /\ q.interrupted = r.interrupted /\ q.screen = r.screen
      /\ q.pool = r.pool /\ q.poolAt = "check" /\ q.plays = r.plays
  BY DEF ShowRecord
<1>4. Keeps(r, q)
  BY <1>2, <1>3 DEF Keeps
<1>5. ASSUME Handshake(r) PROVE Handshake(q)
  <2>1. r.pool \in Seq(Index) /\ Len(r.pool) \in Nat /\ Len(r.pool) # 0
    BY DEF ShowRecord
  <2>2. NextIndex(q) = NextIndex(r)
    BY <1>3 DEF NextIndex
  <2>3. Head(r.pool) = r.currentIndex
    BY <1>5, <2>1 DEF Handshake
  <2> QED
    BY <1>3, <1>5, <2>2, <2>3 DEF Handshake
<1> QED
  BY <1>3, <1>4, <1>5

\* The next photo's: it was the last one asked for, and the thread still waits.
LEMMA StoreNextKeeps ==
  ASSUME NEW r \in ShowRecord, r.currentIndex < r.size,
         r.interrupted \/ r.at = "ended" => r.stopped,
         r.pool # <<>>, r.poolAt = "next",
         NEW q, q = [r EXCEPT !.nextImage = Head(r.pool), !.poolAt = "check"]
  PROVE  /\ Keeps(r, q) /\ q.stopped = r.stopped
         /\ Handshake(r) => Handshake(q)
<1>1. Head(r.pool) \in Index
  BY DEF ShowRecord
<1>2. q \in ShowRecord /\ q.currentIndex < q.size
  BY <1>1 DEF ShowRecord
<1>3. /\ q.album = r.album /\ q.size = r.size /\ q.deleted = r.deleted
      /\ q.currentIndex = r.currentIndex /\ q.currentImage = r.currentImage
      /\ q.nextImage = Head(r.pool) /\ q.initialized = r.initialized /\ q.at = r.at
      /\ q.stopped = r.stopped /\ q.interrupted = r.interrupted /\ q.screen = r.screen
      /\ q.pool = r.pool /\ q.poolAt = "check" /\ q.plays = r.plays
  BY DEF ShowRecord
<1>4. Keeps(r, q)
  BY <1>2, <1>3 DEF Keeps
<1>5. ASSUME Handshake(r) PROVE Handshake(q)
  <2>1. r.pool \in Seq(Index) /\ Len(r.pool) \in Nat /\ Len(r.pool) # 0
    BY DEF ShowRecord
  <2>2. NextIndex(q) = NextIndex(r)
    BY <1>3 DEF NextIndex
  <2>3. r.pool[1] # r.currentIndex /\ 1 \in 1 .. Len(r.pool) /\ Head(r.pool) = r.pool[1]
    BY <1>5, <2>1 DEF Handshake
  <2>4. r.at = "show" /\ Len(r.pool) = 1 /\ r.pool[1] = NextIndex(r)
    BY <1>5, <2>3 DEF Handshake
  <2>5. \A k \in 1 .. Len(q.pool) : k = Len(q.pool) /\ q.pool[k] = NextIndex(q)
    <3>1. Len(q.pool) = 1 /\ q.pool[1] = NextIndex(q)
      BY <1>3, <2>2, <2>4
    <3>2. \A k \in 1 .. 1 : k = 1
      OBVIOUS
    <3> QED
      BY <3>1, <3>2
  <2>6. r.initialized /\ r.currentImage = r.currentIndex /\ r.screen = r.currentIndex
    BY <1>5, <2>4 DEF Handshake
  <2> QED
    BY <1>3, <2>2, <2>3, <2>4, <2>5, <2>6 DEF Handshake
<1> QED
  BY <1>3, <1>4, <1>5

\* The first picture is there, and the show is to be played.
LEMMA InitializedKeeps ==
  ASSUME NEW r \in ShowRecord, r.currentIndex < r.size,
         r.interrupted \/ r.at = "ended" => r.stopped,
         r.pool # <<>>, r.poolAt = "check", ~r.initialized,
         NEW q, q = [r EXCEPT !.initialized = TRUE, !.poolAt = "play"]
  PROVE  /\ Keeps(r, q) /\ q.stopped = r.stopped
         /\ Handshake(r) => Handshake(q)
<1>1. q \in ShowRecord /\ q.currentIndex < q.size
  BY DEF ShowRecord
<1>2. /\ q.album = r.album /\ q.size = r.size /\ q.deleted = r.deleted
      /\ q.currentIndex = r.currentIndex /\ q.currentImage = r.currentImage
      /\ q.nextImage = r.nextImage /\ q.initialized = TRUE /\ q.at = r.at
      /\ q.stopped = r.stopped /\ q.interrupted = r.interrupted /\ q.screen = r.screen
      /\ q.pool = r.pool /\ q.poolAt = "play" /\ q.plays = r.plays
  BY DEF ShowRecord
<1>3. Keeps(r, q)
  BY <1>1, <1>2 DEF Keeps
<1>4. ASSUME Handshake(r) PROVE Handshake(q)
  <2>1. r.pool \in Seq(Index) /\ Len(r.pool) \in Nat /\ Len(r.pool) # 0
    BY DEF ShowRecord
  <2>2. NextIndex(q) = NextIndex(r)
    BY <1>2 DEF NextIndex
  <2>3. r.at = "new"
    BY <1>4 DEF Handshake
  <2> QED
    BY <1>2, <1>4, <2>2, <2>3 DEF Handshake
<1> QED
  BY <1>2, <1>3, <1>4

LEMMA RepaintGoesOn ==
  ASSUME NEW r \in ShowRecord, r.currentIndex < r.size, Handshake(r),
         NEW q, q = [r EXCEPT !.screen = r.currentImage, !.interrupted = FALSE,
                              !.pool = Append(@, NextIndex(r)), !.at = "show"]
  PROVE  GoesOn(q)
<1>1. NextIndex(r) \in Index /\ r.pool \in Seq(Index) /\ Len(r.pool) \in Nat
  BY NextIndexIs DEF ShowRecord
<1>2. /\ q.currentIndex = r.currentIndex /\ q.size = r.size
      /\ q.pool = Append(r.pool, NextIndex(r)) /\ q.poolAt = r.poolAt
  BY DEF ShowRecord
<1>3. Len(q.pool) = Len(r.pool) + 1 /\ q.pool[Len(q.pool)] = NextIndex(r)
  BY <1>1, <1>2
<1>4. Len(q.pool) \in 1 .. Len(q.pool)
  BY <1>1, <1>3
<1>5. Len(q.pool) = 1 => q.poolAt = "idle"
  BY <1>1, <1>2, <1>3 DEF Handshake
<1>6. NextIndex(q) = NextIndex(r)
  BY <1>2 DEF NextIndex
<1> QED
  BY <1>3, <1>4, <1>5, <1>6 DEF GoesOn, Coming

\* The task that ends is not the next photo's: that one ends stored.
LEMMA DoneGoesOn ==
  ASSUME NEW r \in ShowRecord, r.pool # <<>>, GoesOn(r),
         r.poolAt \in {"idle", "next"} => r.pool[1] # NextIndex(r),
         NEW q, q = Done(r)
  PROVE  GoesOn(q)
<1>1. r.pool \in Seq(Index) /\ Len(r.pool) \in Nat
  BY DEF ShowRecord
<1>2. /\ q.currentIndex = r.currentIndex /\ q.size = r.size /\ q.at = r.at
      /\ q.nextImage = r.nextImage /\ q.pool = Tail(r.pool) /\ q.poolAt = "idle"
  BY DEF ShowRecord, Done
<1>3. NextIndex(q) = NextIndex(r)
  BY <1>2 DEF NextIndex
<1>4. ASSUME Coming(r) PROVE Coming(q)
  <2>1. PICK k \in 1 .. Len(r.pool) :
          r.pool[k] = NextIndex(r) /\ (k = 1 => r.poolAt \in {"idle", "next"})
    BY <1>4 DEF Coming
  <2>2. k # 1 /\ Len(q.pool) = Len(r.pool) - 1
    BY <1>1, <1>2, <2>1
  <2>3. k - 1 \in 1 .. Len(q.pool) /\ q.pool[k - 1] = r.pool[k]
    BY <1>1, <1>2, <2>1, <2>2
  <2> QED
    BY <1>2, <1>3, <2>1, <2>3 DEF Coming
<1> QED
  BY <1>2, <1>4 DEF GoesOn

LEMMA GenerateGoesOn ==
  ASSUME NEW r \in ShowRecord, r.currentIndex < r.size, r.pool # <<>>, GoesOn(r),
         NEW q, q = [r EXCEPT !.poolAt =
                       IF r.currentIndex = Head(r.pool) THEN "current" ELSE "next"]
  PROVE  GoesOn(q)
<1>1. r.pool \in Seq(Index) /\ Head(r.pool) = r.pool[1]
  BY DEF ShowRecord
<1>2. /\ q.currentIndex = r.currentIndex /\ q.size = r.size /\ q.at = r.at
      /\ q.nextImage = r.nextImage /\ q.pool = r.pool
      /\ q.poolAt = IF r.currentIndex = Head(r.pool) THEN "current" ELSE "next"
  BY DEF ShowRecord
<1>3. NextIndex(q) = NextIndex(r)
  BY <1>2 DEF NextIndex
<1>4. r.size > 1 => NextIndex(r) # r.currentIndex
  <2>1. r.size \in 0 .. MaxPhotos /\ r.currentIndex \in Index
    BY DEF ShowRecord
  <2>2. r.size \in Int /\ r.currentIndex \in Int
    BY <2>1, Bounds DEF Index
  <2> QED
    BY <2>2 DEF NextIndex
<1>5. ASSUME Coming(r), r.size > 1 PROVE Coming(q)
  <2>1. PICK k \in 1 .. Len(r.pool) :
          r.pool[k] = NextIndex(r) /\ (k = 1 => r.poolAt \in {"idle", "next"})
    BY <1>5 DEF Coming
  <2>2. k = 1 => q.poolAt = "next"
    BY <1>1, <1>2, <1>4, <1>5, <2>1
  <2> QED
    BY <1>2, <1>3, <2>1, <2>2 DEF Coming
<1> QED
  BY <1>2, <1>5 DEF GoesOn

LEMMA StoreCurrentGoesOn ==
  ASSUME NEW r \in ShowRecord, r.poolAt = "current", GoesOn(r),
         NEW q, q = [r EXCEPT !.currentImage = Head(r.pool), !.poolAt = "check"]
  PROVE  GoesOn(q)
<1>1. /\ q.currentIndex = r.currentIndex /\ q.size = r.size /\ q.at = r.at
      /\ q.nextImage = r.nextImage /\ q.pool = r.pool
  BY DEF ShowRecord
<1>2. NextIndex(q) = NextIndex(r)
  BY <1>1 DEF NextIndex
<1>3. ASSUME Coming(r) PROVE Coming(q)
  <2>1. PICK k \in 1 .. Len(r.pool) : r.pool[k] = NextIndex(r) /\ k # 1
    BY <1>3 DEF Coming
  <2> QED
    BY <1>1, <1>2, <2>1 DEF Coming
<1> QED
  BY <1>1, <1>3 DEF GoesOn

\* r and q differ at most in the status, the pause and in what their pool is at;
\* the pictures depend on the last of these only.
Alike(r, q) ==
  /\ q.album = r.album /\ q.size = r.size /\ q.deleted = r.deleted
  /\ q.currentIndex = r.currentIndex /\ q.currentImage = r.currentImage
  /\ q.nextImage = r.nextImage /\ q.initialized = r.initialized /\ q.at = r.at
  /\ q.stopped = r.stopped /\ q.interrupted = r.interrupted /\ q.screen = r.screen
  /\ q.pool = r.pool

LEMMA SameHandshake ==
  ASSUME NEW r, NEW q,
         q.currentIndex = r.currentIndex, q.size = r.size, q.currentImage = r.currentImage,
         q.nextImage = r.nextImage, q.initialized = r.initialized, q.at = r.at,
         q.screen = r.screen, q.pool = r.pool, q.poolAt = r.poolAt, Handshake(r)
  PROVE  Handshake(q)
<1>1. NextIndex(q) = NextIndex(r)
  BY DEF NextIndex
<1> QED
  BY <1>1 DEF Handshake

\* A show is played only once its first picture is there.
LEMMA StartedKeeps ==
  ASSUME NEW r \in ShowRecord, r.currentIndex < r.size,
         r.interrupted \/ r.at = "ended" => r.stopped
  PROVE  /\ Keeps(r, Started(r))
         /\ r.initialized /\ r.poolAt = "idle" /\ Handshake(r) => Handshake(Started(r))
<1> DEFINE q == Started(r)
<1>1. q \in ShowRecord
  BY DEF ShowRecord, Started
<1>2. /\ q.album = r.album /\ q.size = r.size /\ q.deleted = r.deleted
      /\ q.currentIndex = r.currentIndex /\ q.currentImage = r.currentImage
      /\ q.nextImage = r.nextImage /\ q.initialized = r.initialized
      /\ q.stopped = r.stopped /\ q.interrupted = r.interrupted /\ q.screen = r.screen
      /\ q.pool = r.pool /\ q.poolAt = r.poolAt /\ q.plays = r.plays
      /\ q.at = IF r.at = "new" THEN "top" ELSE r.at
  BY DEF ShowRecord, Started
<1> HIDE DEF q
<1>3. Keeps(r, q)
  BY <1>1, <1>2 DEF Keeps
<1>4. ASSUME r.initialized, r.poolAt = "idle", Handshake(r) PROVE Handshake(q)
  <2>1. CASE r.at = "new"
    <3>1. r.currentImage = r.currentIndex /\ r.nextImage = None
      BY <1>4, <2>1 DEF Handshake
    <3> QED
      BY <1>2, <1>4, <2>1, <3>1 DEF Handshake
  <2>2. CASE r.at # "new"
    BY <1>2, <1>4, <2>2, SameHandshake
  <2> QED
    BY <2>1, <2>2
<1> QED
  BY <1>3, <1>4 DEF q

-----------------------------------------------------------------------------
(* All shows.                                                                *)

LEMMA ShowsAre ==
  ASSUME player \in Nat
  PROVE  ShowsOK <=> show \in [1 .. player -> ShowRecord]
<1>1. ASSUME ShowsOK PROVE show \in [1 .. player -> ShowRecord]
  BY <1>1 DEF ShowsOK
<1>2. ASSUME show \in [1 .. player -> ShowRecord] PROVE ShowsOK
  BY <1>2 DEF ShowsOK
<1> QED
  BY <1>1, <1>2

\* A step that changes one show keeps the others.
LEMMA ChangeShow ==
  ASSUME DataOK, ShowsOK, NEW s \in 1 .. player, NEW q \in ShowRecord,
         show' = [show EXCEPT ![s] = q], player' = player
  PROVE  /\ ShowsOK' /\ show'[s] = q
         /\ \A t \in 1 .. player : t # s => show'[t] = show[t]
<1>1. player \in Nat /\ player' \in Nat
  BY Bounds DEF DataOK
<1>2. show \in [1 .. player -> ShowRecord]
  BY <1>1, ShowsAre
<1>3. show' \in [1 .. player' -> ShowRecord]
  BY <1>2
<1>4. ShowsOK'
  BY <1>1, <1>3 DEF ShowsOK
<1> QED
  BY <1>2, <1>4

LEMMA OthersKept ==
  ASSUME ShowsInv, NEW s \in 1 .. player, UNCHANGED <<photos, player>>, astray \subseteq astray',
         \A t \in 1 .. player : t # s => show'[t] = show[t],
         ShowInv(s, show[s])', (s \notin astray /\ ~show[s].stopped => Handshake(show[s]))'
  PROVE  ShowsInv'
<1> SUFFICES ASSUME NEW t \in 1 .. player, t # s
             PROVE  /\ ShowInv(t, show[t])'
                    /\ (t \notin astray /\ ~show[t].stopped => Handshake(show[t]))'
  BY DEF ShowsInv
<1>1. ShowInv(t, show[t]) /\ (t \notin astray /\ ~show[t].stopped => Handshake(show[t]))
  BY DEF ShowsInv
<1>2. show'[t] = show[t]
  OBVIOUS
<1>3. ShowInv(t, show[t])'
  BY <1>1, <1>2 DEF ShowInv
<1>4. (t \notin astray /\ ~show[t].stopped => Handshake(show[t]))'
  BY <1>1, <1>2 DEF Handshake, NextIndex
<1> QED
  BY <1>3, <1>4

\* A step of a show's own thread or pool.
LEMMA OwnStep ==
  ASSUME DataOK, ShowsOK, ShowsInv, NEW s \in 1 .. player, NEW q,
         show' = [show EXCEPT ![s] = q], UNCHANGED <<photos, player>>, astray \subseteq astray',
         Keeps(show[s], q),
         s \notin astray' /\ ~q.stopped => Handshake(q)
  PROVE  ShowsOK' /\ ShowsInv'
<1>1. q \in ShowRecord
  BY DEF Keeps
<1>2. /\ ShowsOK' /\ show'[s] = q
      /\ \A t \in 1 .. player : t # s => show'[t] = show[t]
  BY <1>1, ChangeShow
<1>3. ShowInv(s, show[s])
  BY DEF ShowsInv
<1>4. ShowInv(s, show[s])'
  BY <1>2, <1>3 DEF ShowInv, Keeps
<1>5. (s \notin astray /\ ~show[s].stopped => Handshake(show[s]))'
  BY <1>2 DEF Handshake, NextIndex
<1> QED
  BY <1>2, <1>4, <1>5, OthersKept

LEMMA OwnStepInv ==
  ASSUME IInv, NEW s \in 1 .. player, NEW q,
         show' = [show EXCEPT ![s] = q], UNCHANGED <<state, player, doing, requests>>,
         astray' = astray, swallowed' \subseteq Shows, faults' \in 0 .. MaxFaults,
         Keeps(show[s], q),
         s \notin astray /\ ~q.stopped => Handshake(q)
  PROVE  IInv'
<1> USE DEF IInv
<1>1. DataOK'
  BY DEF DataOK, state
<1>2. ShowsOK' /\ ShowsInv'
  BY OwnStep DEF state
<1>3. player # 0 /\ show[player].stopped => show'[player].stopped
  <2>1. q \in ShowRecord /\ (show[s].stopped => q.stopped)
    BY DEF Keeps
  <2>2. show'[s] = q /\ \A t \in 1 .. player : t # s => show'[t] = show[t]
    BY <2>1, ChangeShow
  <2> QED
    BY <2>1, <2>2, Bounds DEF DataOK
<1>4. CallbackInv'
  BY <1>3 DEF CallbackInv, state
<1> QED
  BY <1>1, <1>2, <1>4

LEMMA ShowOf ==
  ASSUME IInv, NEW s \in DOMAIN show
  PROVE  /\ s \in 1 .. player /\ s \in Shows /\ show[s] \in ShowRecord
         /\ show \in [1 .. player -> ShowRecord]
         /\ show[s].currentIndex < show[s].size
         /\ show[s].interrupted \/ show[s].at = "ended" => show[s].stopped
         /\ s \notin astray /\ ~show[s].stopped => Handshake(show[s])
<1>1. player \in 0 .. MaxShows
  BY DEF IInv, DataOK
<1>2. show \in [1 .. player -> ShowRecord]
  BY <1>1, Bounds, ShowsAre DEF IInv
<1>3. s \in 1 .. player /\ s \in Shows
  BY <1>1, <1>2, Bounds DEF Shows
<1> QED
  BY <1>2, <1>3 DEF IInv, ShowsInv, ShowInv

\* A thread in its loop does not put a stop out of its mind.
Obeys(s, r, q) ==
  q.stopped /\ q.at \in Working =>
    r.stopped /\ r.at \in Working /\ (r.interrupted => q.interrupted \/ s \in swallowed')

\* What a step of a show's own thread or pool makes of it.
OwnChange(s, q) ==
  /\ show' = [show EXCEPT ![s] = q] /\ Keeps(show[s], q) /\ Obeys(s, show[s], q)
  /\ s \notin astray /\ ~q.stopped => Handshake(q)
  /\ s \notin astray /\ ~q.stopped /\ ~show[s].deleted /\ faults' = 0 /\ GoesOn(show[s])
       => GoesOn(q)

LEMMA RunStep ==
  ASSUME IInv, NEW s \in Shows, Run(s)
  PROVE  \E q : OwnChange(s, q)
<1>1. s \in DOMAIN show
  BY DEF Run, Top, Repaint, MoveIndex, Interrupted, MoveImage, ClearNext, Thread
<1>2. /\ s \in 1 .. player /\ show[s] \in ShowRecord
      /\ show[s].currentIndex < show[s].size
      /\ show[s].interrupted \/ show[s].at = "ended" => show[s].stopped
      /\ s \notin astray /\ ~show[s].stopped => Handshake(show[s])
  BY <1>1, ShowOf
<1>3. CASE Top(s)
  <2> DEFINE q == [show[s] EXCEPT !.at = IF show[s].stopped THEN "ended" ELSE "paint"]
  <2>1. show' = [show EXCEPT ![s] = q] /\ show[s].at = "top"
    BY <1>3 DEF Top, Thread
  <2>2. /\ Keeps(show[s], q) /\ q.stopped = show[s].stopped
        /\ ~show[s].stopped /\ Handshake(show[s]) => Handshake(q)
    BY <1>2, <2>1, TopKeeps
  <2>3. q.at # "show"
    BY <1>2 DEF ShowRecord
  <2>4. Obeys(s, show[s], q)
    BY <1>2, <2>1 DEF Obeys, Working, ShowRecord
  <2> HIDE DEF q
  <2> QED
    BY <1>2, <2>1, <2>2, <2>3, <2>4 DEF OwnChange, GoesOn
<1>4. CASE Repaint(s)
  <2> DEFINE q == [show[s] EXCEPT !.screen = show[s].currentImage, !.interrupted = FALSE,
                                  !.pool = Append(@, NextIndex(show[s])), !.at = "show"]
  <2>1. show' = [show EXCEPT ![s] = q] /\ show[s].at = "paint"
    BY <1>4 DEF Repaint, Thread
  <2>2. /\ Keeps(show[s], q) /\ q.stopped = show[s].stopped
        /\ Handshake(show[s]) => Handshake(q)
    BY <1>2, <2>1, RepaintKeeps
  <2>3. Handshake(show[s]) => GoesOn(q)
    BY <1>2, RepaintGoesOn
  <2>4. Obeys(s, show[s], q)
    BY <1>2, <1>4, <2>1 DEF Repaint, Obeys, Working, ShowRecord
  <2> HIDE DEF q
  <2> QED
    BY <1>2, <2>1, <2>2, <2>3, <2>4 DEF OwnChange, GoesOn
<1>5. CASE MoveIndex(s)
  <2> DEFINE q == [show[s] EXCEPT !.currentIndex = NextIndex(show[s]), !.at = "image"]
  <2>1. show' = [show EXCEPT ![s] = q] /\ show[s].at = "show" /\ show[s].nextImage # None
    BY <1>5 DEF MoveIndex, Thread
  <2>2. /\ Keeps(show[s], q) /\ q.stopped = show[s].stopped
        /\ Handshake(show[s]) => Handshake(q)
    BY <1>2, <2>1, MoveIndexKeeps
  <2>3. q.at # "show"
    BY <1>2 DEF ShowRecord
  <2>4. Obeys(s, show[s], q)
    BY <1>2, <2>1 DEF Obeys, Working, ShowRecord
  <2> HIDE DEF q
  <2> QED
    BY <1>2, <2>1, <2>2, <2>3, <2>4 DEF OwnChange, GoesOn
<1>6. CASE Interrupted(s)
  <2> DEFINE q == [show[s] EXCEPT !.interrupted = FALSE, !.at = "top"]
  <2>1. show' = [show EXCEPT ![s] = q] /\ show[s].at = "show" /\ show[s].interrupted
    BY <1>6 DEF Interrupted, Thread
  <2>2. /\ Keeps(show[s], q) /\ q.stopped = show[s].stopped
        /\ ~show[s].stopped /\ Handshake(show[s]) => Handshake(q)
    BY <1>2, <2>1, InterruptedKeeps
  <2>3. q.at # "show"
    BY <1>2 DEF ShowRecord
  <2>4. Obeys(s, show[s], q)
    BY <1>2, <2>1 DEF Obeys, Working, ShowRecord
  <2> HIDE DEF q
  <2> QED
    BY <1>2, <2>1, <2>2, <2>3, <2>4 DEF OwnChange, GoesOn
<1>7. CASE MoveImage(s)
  <2> DEFINE q == [show[s] EXCEPT !.currentImage = show[s].nextImage, !.at = "clear"]
  <2>1. show' = [show EXCEPT ![s] = q] /\ show[s].at = "image"
    BY <1>7 DEF MoveImage, Thread
  <2>2. /\ Keeps(show[s], q) /\ q.stopped = show[s].stopped
        /\ Handshake(show[s]) => Handshake(q)
    BY <1>2, <2>1, MoveImageKeeps
  <2>3. q.at # "show"
    BY <1>2 DEF ShowRecord
  <2>4. Obeys(s, show[s], q)
    BY <1>2, <2>1 DEF Obeys, Working, ShowRecord
  <2> HIDE DEF q
  <2> QED
    BY <1>2, <2>1, <2>2, <2>3, <2>4 DEF OwnChange, GoesOn
<1>8. CASE ClearNext(s)
  <2> DEFINE q == [show[s] EXCEPT !.nextImage = None, !.at = "top"]
  <2>1. show' = [show EXCEPT ![s] = q] /\ show[s].at = "clear"
    BY <1>8 DEF ClearNext, Thread
  <2>2. /\ Keeps(show[s], q) /\ q.stopped = show[s].stopped
        /\ Handshake(show[s]) => Handshake(q)
    BY <1>2, <2>1, ClearNextKeeps
  <2>3. q.at # "show"
    BY <1>2 DEF ShowRecord
  <2>4. Obeys(s, show[s], q)
    BY <1>2, <2>1 DEF Obeys, Working, ShowRecord
  <2> HIDE DEF q
  <2> QED
    BY <1>2, <2>1, <2>2, <2>3, <2>4 DEF OwnChange, GoesOn
<1> QED
  BY <1>3, <1>4, <1>5, <1>6, <1>7, <1>8 DEF Run

\* The pool's tasks other than those that play a show.
LEMMA PoolTask ==
  ASSUME IInv, NEW s \in Shows, PreviewFails(s) \/ Generate(s) \/ Store(s) \/ Complete(s)
  PROVE  \E q : OwnChange(s, q)
<1>1. s \in DOMAIN show /\ show[s].pool # <<>>
  BY DEF PreviewFails, Generate, Store, Complete, PoolStep
<1>2. /\ s \in 1 .. player /\ show[s] \in ShowRecord
      /\ show \in [1 .. player -> ShowRecord]
      /\ show[s].currentIndex < show[s].size
      /\ show[s].interrupted \/ show[s].at = "ended" => show[s].stopped
      /\ s \notin astray /\ ~show[s].stopped => Handshake(show[s])
  BY <1>1, ShowOf
<1>3. ASSUME show' = [show EXCEPT ![s] = Done(@)],
             s \notin astray /\ ~show[s].stopped /\ ~show[s].deleted /\ faults' = 0 =>
               show[s].poolAt \notin {"idle", "next"} \/ show[s].pool[1] # NextIndex(show[s])
      PROVE  \E q : OwnChange(s, q)
  <2> DEFINE q == Done(show[s])
  <2>1. show' = [show EXCEPT ![s] = q]
    BY <1>2, <1>3
  <2>2. /\ Keeps(show[s], q) /\ q.stopped = show[s].stopped
        /\ Handshake(show[s]) => Handshake(q)
    BY <1>1, <1>2, DoneKeeps
  <2>3. s \notin astray /\ ~show[s].stopped /\ ~show[s].deleted /\ faults' = 0 /\ GoesOn(show[s])
          => GoesOn(q)
    BY <1>1, <1>2, <1>3, DoneGoesOn
  <2>4. Obeys(s, show[s], q)
    BY <1>1, <1>2 DEF Done, Obeys, Working, ShowRecord
  <2> HIDE DEF q
  <2> QED
    BY <1>2, <2>1, <2>2, <2>3, <2>4 DEF OwnChange
<1>4. CASE PreviewFails(s)
  <2>1. ~show[s].deleted /\ faults' = 0 => Head(show[s].pool) >= show[s].size
    <3>1. faults \in Nat
      BY Bounds DEF IInv, DataOK
    <3> QED
      BY <1>4, <3>1 DEF PreviewFails, Preview
  <2>2. /\ Head(show[s].pool) = show[s].pool[1]
        /\ NextIndex(show[s]) < show[s].size /\ NextIndex(show[s]) \in Int
        /\ show[s].size \in Int
    <3>1. show[s].pool \in Seq(Index) /\ show[s].size \in 0 .. MaxPhotos
      BY <1>2 DEF ShowRecord
    <3>2. NextIndex(show[s]) \in Index /\ NextIndex(show[s]) < show[s].size
      BY <1>2, NextIndexIs
    <3> QED
      BY <1>1, <3>1, <3>2, Bounds DEF Index
  <2>3. ~show[s].deleted /\ faults' = 0 => show[s].pool[1] # NextIndex(show[s])
    BY <2>1, <2>2
  <2> QED
    BY <1>3, <1>4, <2>3 DEF PreviewFails
<1>5. CASE Generate(s)
  <2> DEFINE q == [show[s] EXCEPT !.poolAt =
                     IF show[s].currentIndex = Head(show[s].pool) THEN "current" ELSE "next"]
  <2>1. show' = [show EXCEPT ![s] = q] /\ show[s].poolAt = "idle"
    BY <1>2, <1>5 DEF Generate, PoolStep, Preview
  <2>2. /\ Keeps(show[s], q) /\ q.stopped = show[s].stopped
        /\ Handshake(show[s]) => Handshake(q)
    BY <1>1, <1>2, <2>1, GenerateKeeps
  <2>3. GoesOn(show[s]) => GoesOn(q)
    BY <1>1, <1>2, GenerateGoesOn
  <2>4. Obeys(s, show[s], q)
    BY <1>2 DEF Obeys, Working, ShowRecord
  <2> HIDE DEF q
  <2> QED
    BY <1>2, <2>1, <2>2, <2>3, <2>4 DEF OwnChange
<1>6. CASE Store(s)
  <2>1. CASE show[s].poolAt = "current"
    <3> DEFINE q == [show[s] EXCEPT !.currentImage = Head(show[s].pool), !.poolAt = "check"]
    <3>1. show' = [show EXCEPT ![s].currentImage = Head(show[s].pool), ![s].poolAt = "check"]
      BY <1>6, <2>1 DEF Store, PoolStep, Preview
    <3>2. show' = [show EXCEPT ![s] = q]
      BY <1>2, <3>1
    <3>3. /\ Keeps(show[s], q) /\ q.stopped = show[s].stopped
          /\ Handshake(show[s]) => Handshake(q)
      BY <1>1, <1>2, <2>1, StoreCurrentKeeps
    <3>4. GoesOn(show[s]) => GoesOn(q)
      BY <1>2, <2>1, StoreCurrentGoesOn
    <3>5. Obeys(s, show[s], q)
      BY <1>2 DEF Obeys, Working, ShowRecord
    <3> HIDE DEF q
    <3> QED
      BY <1>2, <3>2, <3>3, <3>4, <3>5 DEF OwnChange, GoesOn
  <2>2. CASE show[s].poolAt = "next"
    <3> DEFINE q == [show[s] EXCEPT !.nextImage = Head(show[s].pool), !.poolAt = "check"]
    <3>1. show' = [show EXCEPT ![s].nextImage = Head(show[s].pool), ![s].poolAt = "check"]
      BY <1>6, <2>2 DEF Store, PoolStep, Preview
    <3>2. show' = [show EXCEPT ![s] = q]
      BY <1>2, <3>1
    <3>3. /\ Keeps(show[s], q) /\ q.stopped = show[s].stopped
          /\ Handshake(show[s]) => Handshake(q)
      BY <1>1, <1>2, <2>2, StoreNextKeeps
    <3>4. q.nextImage # None
      <4>1. Head(show[s].pool) \in Index /\ q.nextImage = Head(show[s].pool)
        BY <1>1, <1>2 DEF ShowRecord
      <4> QED
        BY <4>1, Bounds DEF Index, None
    <3>5. Obeys(s, show[s], q)
      BY <1>2 DEF Obeys, Working, ShowRecord
    <3> HIDE DEF q
    <3> QED
      BY <1>2, <3>2, <3>3, <3>4, <3>5 DEF OwnChange, GoesOn
  <2> QED
    BY <1>6, <2>1, <2>2 DEF Store, PoolStep
<1>7. CASE Complete(s)
  <2>1. CASE show[s].currentIndex = Preview(s) /\ ~show[s].initialized
    <3> DEFINE q == [show[s] EXCEPT !.initialized = TRUE, !.poolAt = "play"]
    <3>1. show' = [show EXCEPT ![s].initialized = TRUE, ![s].poolAt = "play"]
          /\ show[s].poolAt = "check"
      BY <1>7, <2>1 DEF Complete, PoolStep
    <3>2. show' = [show EXCEPT ![s] = q]
      BY <1>2, <3>1
    <3>3. /\ Keeps(show[s], q) /\ q.stopped = show[s].stopped
          /\ Handshake(show[s]) => Handshake(q)
      BY <1>1, <1>2, <2>1, <3>1, InitializedKeeps
    <3>4. Handshake(show[s]) => q.at # "show"
      BY <1>2, <2>1 DEF Handshake, ShowRecord
    <3>5. Obeys(s, show[s], q)
      BY <1>2 DEF Obeys, Working, ShowRecord
    <3> HIDE DEF q
    <3> QED
      BY <1>2, <3>2, <3>3, <3>4, <3>5 DEF OwnChange, GoesOn
  <2>2. CASE ~(show[s].currentIndex = Preview(s) /\ ~show[s].initialized)
    BY <1>1, <1>3, <1>7, <2>2 DEF Complete, PoolStep
  <2> QED
    BY <2>1, <2>2
<1> QED
  BY <1>4, <1>5, <1>6, <1>7

LEMMA OwnStepsFrame ==
  ASSUME IInv, NEW s \in Shows,
         Run(s) \/ PreviewFails(s) \/ Generate(s) \/ Store(s) \/ Complete(s)
  PROVE  /\ s \in 1 .. player
         /\ UNCHANGED <<state, player, doing, requests>> /\ astray' = astray
         /\ swallowed' \subseteq Shows /\ faults' \in 0 .. MaxFaults
         /\ faults' = 0 => faults = 0
         /\ swallowed \subseteq swallowed'
<1>1. faults \in 0 .. MaxFaults /\ swallowed \subseteq Shows
  BY DEF IInv, DataOK
<1>2. CASE Run(s)
  <2>1. s \in DOMAIN show
    BY <1>2 DEF Run, Top, Repaint, MoveIndex, Interrupted, MoveImage, ClearNext, Thread
  <2>2. /\ UNCHANGED <<state, player, doing, requests, faults>> /\ astray' = astray
        /\ swallowed' \in {swallowed, swallowed \cup {s}}
    BY <1>2 DEF Run, Top, Repaint, MoveIndex, Interrupted, MoveImage, ClearNext, Thread
  <2> QED
    BY <1>1, <2>1, <2>2, ShowOf
<1>3. CASE PreviewFails(s)
  <2>1. s \in DOMAIN show
    BY <1>3 DEF PreviewFails, PoolStep
  <2>2. faults' = faults \/ (faults < MaxFaults /\ faults' = faults + 1)
    BY <1>3 DEF PreviewFails
  <2>3. faults' \in 0 .. MaxFaults /\ (faults' = 0 => faults = 0)
    BY <1>1, <2>2, Bounds
  <2>4. UNCHANGED <<state, player, doing, requests>> /\ astray' = astray /\ swallowed' = swallowed
    BY <1>3 DEF PreviewFails, history
  <2> QED
    BY <1>1, <2>1, <2>3, <2>4, ShowOf
<1>4. CASE Generate(s) \/ Store(s) \/ Complete(s)
  <2>1. s \in DOMAIN show
    BY <1>4 DEF Generate, Store, Complete, PoolStep
  <2>2. /\ UNCHANGED <<state, player, doing, requests, faults>> /\ astray' = astray
        /\ swallowed' = swallowed
    BY <1>4 DEF Generate, Store, Complete, history
  <2> QED
    BY <1>1, <2>1, <2>2, ShowOf
<1> QED
  BY <1>2, <1>3, <1>4

LEMMA OwnStepsChange ==
  ASSUME IInv, NEW s \in Shows,
         Run(s) \/ PreviewFails(s) \/ Generate(s) \/ Store(s) \/ Complete(s)
  PROVE  \E q : OwnChange(s, q)
  BY RunStep, PoolTask

LEMMA OwnStepsKeepInv ==
  ASSUME IInv, NEW s \in Shows,
         Run(s) \/ PreviewFails(s) \/ Generate(s) \/ Store(s) \/ Complete(s)
  PROVE  IInv'
<1>1. PICK q : OwnChange(s, q)
  BY OwnStepsChange
<1>2. /\ s \in 1 .. player
      /\ UNCHANGED <<state, player, doing, requests>> /\ astray' = astray
      /\ swallowed' \subseteq Shows /\ faults' \in 0 .. MaxFaults
  BY OwnStepsFrame
<1> QED
  BY <1>1, <1>2, OwnStepInv DEF OwnChange

LEMMA PlayPlayerIs ==
  ASSUME IInv, NEW s \in Shows, PlayPlayer(s)
  PROVE  /\ show' \in [1 .. player -> ShowRecord]
         /\ \A t \in 1 .. player :
              /\ Alike(show[t], show'[t])
              /\ t = s => show'[t].poolAt = "start" /\ show'[t].plays = player
              /\ t # s => show'[t].poolAt = show[t].poolAt /\ show'[t].plays = show[t].plays
<1>1. s \in DOMAIN show
  BY DEF PlayPlayer, PoolStep
<1>2. s \in 1 .. player /\ show \in [1 .. player -> ShowRecord] /\ player \in 1 .. MaxShows
  BY <1>1, ShowOf, Bounds DEF IInv, DataOK
<1>3. show' = [[show EXCEPT ![player].status = "PLAYING"]
                       EXCEPT ![s].poolAt = "start", ![s].plays = player]
  BY DEF PlayPlayer
<1> DEFINE played == [show[player] EXCEPT !.status = "PLAYING"]
           mid == [show EXCEPT ![player] = played]
           starts == [mid[s] EXCEPT !.poolAt = "start", !.plays = player]
<1>4. /\ played \in ShowRecord /\ Alike(show[player], played)
      /\ played.poolAt = show[player].poolAt /\ played.plays = show[player].plays
  <2>1. show[player] \in ShowRecord
    BY <1>2
  <2> QED
    BY <2>1 DEF ShowRecord, Alike
<1> HIDE DEF played
<1>5. /\ mid \in [1 .. player -> ShowRecord] /\ mid[player] = played
      /\ \A t \in 1 .. player : t # player => mid[t] = show[t]
  BY <1>2, <1>4
<1>6. show' = [mid EXCEPT ![s] = starts]
  BY <1>2, <1>3 DEF played
<1> HIDE DEF mid
<1>7. /\ starts \in ShowRecord /\ Alike(mid[s], starts)
      /\ starts.poolAt = "start" /\ starts.plays = player
  <2>1. mid[s] \in ShowRecord /\ player \in 0 .. MaxShows
    BY <1>2, <1>5
  <2> QED
    BY <2>1 DEF ShowRecord, Alike
<1> HIDE DEF starts
<1>8. /\ show' \in [1 .. player -> ShowRecord] /\ show'[s] = starts
      /\ \A t \in 1 .. player : t # s => show'[t] = mid[t]
  BY <1>2, <1>5, <1>6, <1>7
<1>9. ASSUME NEW t \in 1 .. player
      PROVE  /\ Alike(show[t], mid[t])
             /\ mid[t].poolAt = show[t].poolAt /\ mid[t].plays = show[t].plays
  <2>1. Alike(show[t], show[t])
    BY DEF Alike
  <2> QED
    BY <1>4, <1>5, <2>1
<1>10. ASSUME NEW t \in 1 .. player PROVE Alike(mid[t], show'[t])
  <2>1. Alike(mid[t], mid[t])
    BY DEF Alike
  <2> QED
    BY <1>7, <1>8, <2>1
<1>11. \A t \in 1 .. player : Alike(show[t], show'[t])
  BY <1>9, <1>10 DEF Alike
<1> QED
  BY <1>7, <1>8, <1>9, <1>11

\* The show played is the player's, and another's pool is in its history.
LEMMA PlayPlayerKeepsInv ==
  ASSUME IInv, NEW s \in Shows, PlayPlayer(s)
  PROVE  IInv'
<1>1. s \in DOMAIN show /\ show[s].pool # <<>> /\ show[s].poolAt = "play"
  BY DEF PlayPlayer, PoolStep
<1>2. s \in 1 .. player /\ show \in [1 .. player -> ShowRecord] /\ player \in 1 .. MaxShows
  BY <1>1, ShowOf, Bounds DEF IInv, DataOK
<1>3. DataOK'
  BY <1>2, Bounds DEF IInv, DataOK, PlayPlayer, state, Shows
<1>4. /\ show' \in [1 .. player -> ShowRecord]
      /\ \A t \in 1 .. player :
           /\ Alike(show[t], show'[t])
           /\ t = s => show'[t].poolAt = "start" /\ show'[t].plays = player
           /\ t # s => show'[t].poolAt = show[t].poolAt /\ show'[t].plays = show[t].plays
  BY PlayPlayerIs
<1>5. UNCHANGED <<photos, player, doing, pendingStatus>>
  BY DEF PlayPlayer, state
<1>6. ShowsOK'
  <2>1. player' \in Nat /\ show' \in [1 .. player' -> ShowRecord]
    BY <1>2, <1>4, <1>5, Bounds
  <2> QED
    BY <2>1 DEF ShowsOK
<1>7. CallbackInv'
  BY <1>2, <1>4, <1>5 DEF IInv, CallbackInv, Alike
<1>8. ASSUME NEW t \in 1 .. player
      PROVE  ShowInv(t, show[t])' /\ (t \notin astray /\ ~show[t].stopped => Handshake(show[t]))'
  <2>1. ShowInv(t, show[t]) /\ (t \notin astray /\ ~show[t].stopped => Handshake(show[t]))
    BY DEF IInv, ShowsInv
  <2>2. astray \subseteq astray' /\ (player # s => player \in astray')
    BY DEF PlayPlayer
  <2>3. ShowInv(t, show[t])'
    BY <1>2, <1>4, <1>5, <2>1, <2>2 DEF ShowInv, Alike
  <2>4. ASSUME t \notin astray', ~show'[t].stopped PROVE Handshake(show[t])'
    <3>1. Handshake(show[t]) /\ NextIndex(show[t])' = NextIndex(show[t])
      BY <1>4, <2>1, <2>2, <2>4 DEF NextIndex, Alike
    <3>2. CASE t # s
      BY <1>4, <3>1, <3>2 DEF Handshake, Alike
    <3>3. CASE t = s
      <4>1. show[t].at = "new" /\ show[t].initialized
        BY <1>1, <3>1, <3>3 DEF Handshake
      <4> QED
        BY <1>1, <1>4, <3>1, <3>3, <4>1 DEF Handshake, Alike
    <3> QED
      BY <3>2, <3>3
  <2> QED
    BY <2>3, <2>4
<1>9. ShowsInv'
  BY <1>5, <1>8 DEF ShowsInv
<1> QED
  BY <1>3, <1>6, <1>7, <1>9 DEF IInv

LEMMA KeepsTwice ==
  ASSUME NEW r, NEW m, NEW q, Keeps(r, m), Keeps(m, q)
  PROVE  Keeps(r, q)
  BY DEF Keeps

\* A show that another's pool starts is astray, and nothing is promised of it.
LEMMA StartThreadKeepsInv ==
  ASSUME IInv, NEW s \in Shows, StartThread(s)
  PROVE  IInv'
<1>1. s \in DOMAIN show /\ show[s].pool # <<>> /\ show[s].poolAt = "start"
  BY DEF StartThread, PoolStep
<1>2. /\ s \in 1 .. player /\ show[s] \in ShowRecord
      /\ show \in [1 .. player -> ShowRecord]
      /\ show[s].currentIndex < show[s].size
      /\ show[s].interrupted \/ show[s].at = "ended" => show[s].stopped
      /\ s \notin astray /\ ~show[s].stopped => Handshake(show[s])
  BY <1>1, ShowOf
<1> DEFINE p == show[s].plays
           done == Done(show[s])
<1>3. p \in 1 .. player /\ (p # s => p \in astray)
  BY <1>1, <1>2 DEF IInv, ShowsInv, ShowInv
<1>4. /\ UNCHANGED <<state, player, doing, requests>> /\ astray' = astray
      /\ swallowed' \subseteq Shows /\ faults' \in 0 .. MaxFaults
  BY DEF StartThread, history, IInv, DataOK
<1>5. show' = [[show EXCEPT ![s] = done] EXCEPT ![p] = Started(@)]
  BY <1>2 DEF StartThread
<1>6. /\ Keeps(show[s], done) /\ done.stopped = show[s].stopped
      /\ Handshake(show[s]) => Handshake(done)
  BY <1>1, <1>2, DoneKeeps
<1>7. done \in ShowRecord /\ done.poolAt = "idle" /\ done.initialized = show[s].initialized
  BY <1>2, <1>6 DEF Keeps, Done, ShowRecord
<1> HIDE DEF done, p
<1>8. CASE p = s
  <2> DEFINE q == Started(done)
  <2>1. show' = [show EXCEPT ![s] = q]
    BY <1>2, <1>5, <1>8
  <2>2. done.currentIndex < done.size /\ (done.interrupted \/ done.at = "ended" => done.stopped)
    BY <1>6 DEF Keeps
  <2>3. /\ Keeps(done, q)
        /\ done.initialized /\ done.poolAt = "idle" /\ Handshake(done) => Handshake(q)
    BY <1>7, <2>2, StartedKeeps
  <2>4. Keeps(show[s], q)
    BY <1>6, <2>3, KeepsTwice
  <2>5. Handshake(show[s]) => show[s].initialized
    BY <1>1 DEF Handshake
  <2>6. s \notin astray /\ ~q.stopped => Handshake(q)
    BY <1>2, <1>6, <1>7, <2>3, <2>4, <2>5 DEF Keeps
  <2> HIDE DEF q
  <2> QED
    BY <1>2, <1>4, <2>1, <2>4, <2>6, OwnStepInv
<1>9. CASE p # s
  <2> DEFINE mid == [show EXCEPT ![s] = done]
             q == Started(show[p])
  <2>1. /\ show[p] \in ShowRecord /\ ShowInv(p, show[p])
        /\ show[p].currentIndex < show[p].size
        /\ show[p].interrupted \/ show[p].at = "ended" => show[p].stopped
    BY <1>2, <1>3 DEF IInv, ShowsInv, ShowInv
  <2>2. Keeps(show[p], q)
    BY <2>1, StartedKeeps
  <2>3. q \in ShowRecord
    BY <2>2 DEF Keeps
  <2>4. show' = [mid EXCEPT ![p] = q] /\ mid[p] = show[p]
    BY <1>2, <1>3, <1>5, <1>9
  <2> HIDE DEF q
  <2>5. /\ show' \in [1 .. player -> ShowRecord] /\ show'[s] = done /\ show'[p] = q
        /\ \A t \in 1 .. player : t # s /\ t # p => show'[t] = show[t]
    BY <1>2, <1>3, <1>7, <1>9, <2>3, <2>4
  <2>6. DataOK'
    BY <1>4 DEF IInv, DataOK, state
  <2>7. ShowsOK'
    <3>1. player' \in Nat /\ show' \in [1 .. player' -> ShowRecord]
      BY <1>4, <2>5, Bounds DEF IInv, DataOK
    <3> QED
      BY <3>1 DEF ShowsOK
  <2>8. player # 0 /\ show[player].stopped => show'[player].stopped
    <3>1. player # 0 => player \in 1 .. player
      BY Bounds DEF IInv, DataOK
    <3> QED
      BY <1>6, <2>2, <2>5, <3>1 DEF Keeps
  <2>9. CallbackInv'
    BY <1>4, <2>8 DEF IInv, CallbackInv, state
  <2>10. ASSUME NEW t \in 1 .. player
         PROVE  /\ ShowInv(t, show[t])'
                /\ (t \notin astray /\ ~show[t].stopped => Handshake(show[t]))'
    <3>1. ShowInv(t, show[t]) /\ (t \notin astray /\ ~show[t].stopped => Handshake(show[t]))
      BY DEF IInv, ShowsInv
    <3>2. UNCHANGED <<photos, player>> /\ astray' = astray
      BY <1>4 DEF state
    <3>3. CASE t = s
      <4>1. show'[t] = done
        BY <2>5, <3>3
      <4>2. ShowInv(t, show[t])'
        BY <1>6, <3>1, <3>2, <3>3, <4>1 DEF ShowInv, Keeps
      <4>3. (t \notin astray /\ ~show[t].stopped => Handshake(show[t]))'
        BY <1>6, <3>1, <3>2, <3>3, <4>1 DEF Handshake, NextIndex
      <4> QED
        BY <4>2, <4>3
    <3>4. CASE t = p
      <4>1. show'[t] = q /\ t \in astray'
        BY <1>3, <1>9, <2>5, <3>2, <3>4
      <4>2. ShowInv(t, show[t])'
        BY <2>2, <3>1, <3>2, <3>4, <4>1 DEF ShowInv, Keeps
      <4> QED
        BY <4>1, <4>2
    <3>5. CASE t # s /\ t # p
      <4>1. show'[t] = show[t]
        BY <2>5, <3>5
      <4>2. ShowInv(t, show[t])'
        BY <3>1, <3>2, <4>1 DEF ShowInv
      <4>3. (t \notin astray /\ ~show[t].stopped => Handshake(show[t]))'
        BY <3>1, <3>2, <4>1 DEF Handshake, NextIndex
      <4> QED
        BY <4>2, <4>3
    <3> QED
      BY <3>3, <3>4, <3>5
  <2>11. ShowsInv'
    BY <1>4, <2>10 DEF ShowsInv, state
  <2> QED
    BY <2>6, <2>7, <2>9, <2>11 DEF IInv
<1> QED
  BY <1>8, <1>9

-----------------------------------------------------------------------------
(* The callbacks.                                                            *)

LEMMA PlayersShow ==
  ASSUME IInv, player # 0
  PROVE  /\ player \in 1 .. player /\ show \in [1 .. player -> ShowRecord]
         /\ player \in Shows /\ show[player] \in ShowRecord
         /\ show[player].currentIndex < show[player].size
         /\ show[player].interrupted \/ show[player].at = "ended" => show[player].stopped
         /\ player \notin astray /\ ~show[player].stopped => Handshake(show[player])
<1>1. player \in 0 .. MaxShows
  BY DEF IInv, DataOK
<1>2. player \in 1 .. player /\ show \in [1 .. player -> ShowRecord]
  BY <1>1, Bounds, ShowsAre DEF IInv
<1>3. player \in DOMAIN show
  BY <1>2
<1> QED
  BY <1>2, <1>3, ShowOf

\* A callback that changes the player's show, to q.
LEMMA CallbackStep ==
  ASSUME IInv, player # 0, NEW q,
         show' = [show EXCEPT ![player] = q], UNCHANGED <<photos, player>>,
         astray \subseteq astray',
         Keeps(show[player], q),
         player \notin astray' /\ ~q.stopped => Handshake(q)
  PROVE  ShowsOK' /\ ShowsInv' /\ show'[player] = q
<1>1. player \in 1 .. player /\ show \in [1 .. player -> ShowRecord]
  BY PlayersShow
<1> QED
  BY <1>1, OwnStep DEF IInv

LEMMA Callbacks ==
  ASSUME DataOK
  PROVE  /\ Idle \in Steps
         /\ \A step \in {"idle", "stop", "delete", "init", "pause"} : At(step) \in Steps
         /\ Idle.step = "idle" /\ \A step : At(step).step = step /\ At(step).then = "delete"
  BY AlbumAssumption DEF Idle, At, Steps

LEMMA SetStoppedKeepsInv ==
  ASSUME IInv, SetStopped
  PROVE  IInv'
<1>1. player # 0 /\ doing.step = "stop" /\ doing \in Steps
  BY DEF IInv, CallbackInv, DataOK, SetStopped
<1> DEFINE q == [show[player] EXCEPT !.stopped = TRUE]
<1>2. show[player] \in ShowRecord /\ show \in [1 .. player -> ShowRecord] /\ player \in 1 .. player
      /\ show[player].currentIndex < show[player].size
  BY <1>1, PlayersShow
<1>3. show' = [show EXCEPT ![player] = q]
  BY <1>2 DEF SetStopped
<1>4. Keeps(show[player], q) /\ q.stopped
  BY <1>2 DEF Keeps, ShowRecord
<1> HIDE DEF q
<1>5. UNCHANGED <<photos, player, pendingStatus>> /\ astray' = astray
  BY DEF SetStopped, state, history
<1>6. ShowsOK' /\ ShowsInv' /\ show'[player] = q
  BY <1>1, <1>3, <1>4, <1>5, CallbackStep
<1>7. /\ doing' \in Steps /\ doing'.step = "interrupt"
      /\ doing'.then = doing.then /\ doing'.album = doing.album
  BY <1>1 DEF SetStopped, Steps
<1>8. DataOK'
  BY <1>7 DEF IInv, DataOK, SetStopped, state, history
<1>9. CallbackInv'
  BY <1>1, <1>4, <1>5, <1>6, <1>7 DEF IInv, CallbackInv
<1> QED
  BY <1>6, <1>8, <1>9 DEF IInv

LEMMA InterruptKeepsInv ==
  ASSUME IInv, Interrupt
  PROVE  IInv'
<1>1. player # 0 /\ doing.step = "interrupt" /\ doing \in Steps /\ show[player].stopped
  BY DEF IInv, CallbackInv, DataOK, Interrupt
<1> DEFINE q == [show[player] EXCEPT !.interrupted = (show[player].at \notin {"new", "ended"})]
<1>2. show[player] \in ShowRecord /\ show \in [1 .. player -> ShowRecord] /\ player \in 1 .. player
      /\ show[player].currentIndex < show[player].size
  BY <1>1, PlayersShow
<1>3. show' = [show EXCEPT ![player] = q]
  BY <1>2 DEF Interrupt
<1>4. Keeps(show[player], q) /\ q.stopped
  BY <1>1, <1>2 DEF Keeps, ShowRecord
<1> HIDE DEF q
<1>5. UNCHANGED <<photos, player, pendingStatus>> /\ astray' = astray
  BY DEF Interrupt, state, history
<1>6. ShowsOK' /\ ShowsInv' /\ show'[player] = q
  BY <1>1, <1>3, <1>4, <1>5, CallbackStep
<1>7. /\ doing' \in Steps /\ doing'.step = doing.then
      /\ doing'.then = doing.then /\ doing'.album = doing.album
  BY <1>1 DEF Interrupt, Steps
<1>8. DataOK'
  BY <1>7 DEF IInv, DataOK, Interrupt, state, history
<1>9. doing.then \in {"replace", "delete"}
  BY <1>1 DEF Steps
<1>10. CallbackInv'
  BY <1>1, <1>4, <1>5, <1>6, <1>7, <1>9 DEF IInv, CallbackInv
<1> QED
  BY <1>6, <1>8, <1>10 DEF IInv

LEMMA SetPausedKeepsInv ==
  ASSUME IInv, SetPaused
  PROVE  IInv'
<1>1. player # 0
  BY DEF IInv, CallbackInv, SetPaused
<1> DEFINE q == [show[player] EXCEPT !.paused = TRUE]
<1>2. /\ show[player] \in ShowRecord /\ show \in [1 .. player -> ShowRecord]
      /\ player \in 1 .. player
      /\ show[player].currentIndex < show[player].size
      /\ show[player].interrupted \/ show[player].at = "ended" => show[player].stopped
      /\ player \notin astray /\ ~show[player].stopped => Handshake(show[player])
  BY <1>1, PlayersShow
<1>3. show' = [show EXCEPT ![player] = q]
  BY <1>2 DEF SetPaused
<1>4. Keeps(show[player], q) /\ Alike(show[player], q) /\ q.poolAt = show[player].poolAt
  <2>1. q \in ShowRecord
    BY <1>2 DEF ShowRecord
  <2>2. /\ Alike(show[player], q)
        /\ q.poolAt = show[player].poolAt /\ q.plays = show[player].plays
    BY <1>2 DEF ShowRecord, Alike
  <2> QED
    BY <1>2, <2>1, <2>2 DEF Keeps, Alike
<1> HIDE DEF q
<1>5. UNCHANGED <<photos, player, pendingStatus>> /\ astray' = astray
  BY DEF SetPaused, state, history
<1>6. player \notin astray' /\ ~q.stopped => Handshake(q)
  BY <1>2, <1>4, <1>5, SameHandshake DEF Alike
<1>7. ShowsOK' /\ ShowsInv' /\ show'[player] = q
  BY <1>1, <1>3, <1>4, <1>5, <1>6, CallbackStep
<1>8. doing' \in Steps /\ doing'.step = "idle"
  BY Callbacks DEF IInv, SetPaused
<1>9. DataOK'
  BY <1>8 DEF IInv, DataOK, SetPaused, state, history
<1>10. CallbackInv'
  BY <1>1, <1>5, <1>8 DEF IInv, CallbackInv
<1> QED
  BY <1>7, <1>9, <1>10 DEF IInv

\* A preview of the current photo, asked for before the thread runs or else at
\* the price of being astray.
LEMMA InitShowKeepsInv ==
  ASSUME IInv, InitShow
  PROVE  IInv'
<1>1. player # 0
  BY DEF IInv, CallbackInv, InitShow
<1> DEFINE r == show[player]
           q == [r EXCEPT !.pool = Append(@, r.currentIndex)]
<1>2. /\ r \in ShowRecord /\ show \in [1 .. player -> ShowRecord] /\ player \in 1 .. player
      /\ player \in Shows
      /\ r.currentIndex < r.size
      /\ r.interrupted \/ r.at = "ended" => r.stopped
      /\ player \notin astray /\ ~r.stopped => Handshake(r)
  BY <1>1, PlayersShow
<1>3. show' = [show EXCEPT ![player] = q]
  BY <1>2 DEF InitShow
<1> HIDE DEF r
<1>4. /\ r.currentIndex \in Index /\ r.pool \in Seq(Index)
      /\ Append(r.pool, r.currentIndex) \in Seq(Index)
  BY <1>2 DEF ShowRecord
<1>5. q \in ShowRecord
  BY <1>2, <1>4 DEF ShowRecord
<1>6. /\ q.album = r.album /\ q.size = r.size /\ q.deleted = r.deleted
      /\ q.currentIndex = r.currentIndex /\ q.currentImage = r.currentImage
      /\ q.nextImage = r.nextImage /\ q.initialized = r.initialized /\ q.at = r.at
      /\ q.stopped = r.stopped /\ q.interrupted = r.interrupted /\ q.screen = r.screen
      /\ q.pool = Append(r.pool, r.currentIndex) /\ q.poolAt = r.poolAt /\ q.plays = r.plays
  BY <1>2 DEF ShowRecord
<1> HIDE DEF q
<1>7. Keeps(r, q)
  BY <1>2, <1>5, <1>6 DEF Keeps
<1>8. ASSUME Handshake(r), r.at = "new" PROVE Handshake(q)
  <2>1. Len(r.pool) \in Nat /\ \A k \in 1 .. Len(r.pool) : r.pool[k] = r.currentIndex
    BY <1>4, <1>8 DEF Handshake
  <2>2. /\ Len(q.pool) = Len(r.pool) + 1 /\ q.pool[Len(r.pool) + 1] = r.currentIndex
        /\ \A k \in 1 .. Len(r.pool) : q.pool[k] = r.currentIndex
    BY <1>4, <1>6, <2>1
  <2>3. \A k \in 1 .. Len(q.pool) : q.pool[k] = q.currentIndex
    BY <1>6, <2>1, <2>2
  <2>4. q.pool # <<>> /\ q.pool[1] = q.currentIndex
    BY <2>1, <2>2, <2>3
  <2>5. r.poolAt # "next"
    BY <1>4, <1>8, <2>1 DEF Handshake
  <2> QED
    BY <1>6, <1>8, <2>3, <2>4, <2>5 DEF Handshake
<1>9. /\ UNCHANGED <<photos, player, pendingStatus>>
      /\ astray' = IF r.at = "new" THEN astray ELSE astray \cup {player}
  BY DEF InitShow, state, r
<1>10. player \notin astray' /\ ~q.stopped => Handshake(q)
  BY <1>2, <1>6, <1>8, <1>9
<1>11. ShowsOK' /\ ShowsInv'
  <2>1. astray \subseteq astray'
    BY <1>9
  <2> QED
    BY <1>1, <1>3, <1>7, <1>9, <1>10, <2>1, CallbackStep DEF r
<1>12. doing' \in Steps /\ doing'.step = "idle"
  BY Callbacks DEF IInv, InitShow
<1>13. astray' \subseteq Shows
  BY <1>2, <1>9 DEF IInv, DataOK
<1>14. DataOK'
  BY <1>12, <1>13 DEF IInv, DataOK, InitShow, state
<1>15. CallbackInv'
  BY <1>1, <1>9, <1>12 DEF IInv, CallbackInv
<1> QED
  BY <1>11, <1>14, <1>15 DEF IInv

\* The new show is the player's, and the old ones are stopped by then.
LEMMA ReplaceKeepsInv ==
  ASSUME IInv, Replace
  PROVE  IInv'
<1> DEFINE n == NewShow(doing.album, doing.last)
<1>1. /\ player \in Nat /\ player < MaxShows /\ show \in [1 .. player -> ShowRecord]
      /\ player' = player + 1
      /\ show \in Seq(ShowRecord) /\ Len(show) = player
  <2>1. player \in Nat /\ player < MaxShows
    BY Bounds DEF IInv, CallbackInv, DataOK, Replace
  <2> QED
    BY <2>1, ShowsAre DEF IInv, ShowsOK, Replace
<1>2. /\ doing.album \in Album /\ photos[doing.album] \in 1 .. MaxPhotos
      /\ doing.last \in BOOLEAN
  <2>1. photos[doing.album] > 0 /\ doing \in Steps
    BY DEF IInv, CallbackInv, DataOK, Replace
  <2>2. doing.album \in Album /\ doing.last \in BOOLEAN
    BY <2>1 DEF Steps
  <2> QED
    BY <2>1, <2>2, Bounds DEF IInv, DataOK
<1>3. /\ n \in ShowRecord /\ n.currentIndex < n.size
      /\ n.album = doing.album /\ n.size = photos[doing.album]
      /\ ~n.deleted /\ ~n.interrupted /\ ~n.stopped /\ ~n.initialized /\ n.at = "new"
      /\ n.pool = <<>> /\ n.poolAt = "idle" /\ n.nextImage = None /\ n.currentImage = None
  <2> DEFINE i == IF doing.last THEN photos[doing.album] - 1 ELSE 0
  <2>1. i \in Index /\ i < photos[doing.album]
    BY <1>2, Bounds DEF Index
  <2>2. photos[doing.album] \in 0 .. MaxPhotos /\ 0 \in 0 .. MaxShows
    BY <1>2, Bounds
  <2> HIDE DEF i
  <2>3. n.currentIndex = i
    BY DEF NewShow, i
  <2>4. n \in ShowRecord
    <3>1. n = [album |-> doing.album, size |-> photos[doing.album], deleted |-> FALSE,
               currentIndex |-> i, currentImage |-> None, nextImage |-> None,
               initialized |-> FALSE, status |-> "null",
               at |-> "new", paused |-> FALSE, stopped |-> FALSE, interrupted |-> FALSE,
               screen |-> None, pool |-> <<>>, poolAt |-> "idle", plays |-> 0]
      BY DEF NewShow, i
    <3>2. <<>> \in Seq(Index)
      OBVIOUS
    <3> HIDE DEF n
    <3> QED
      BY <1>2, <2>1, <2>2, <3>1, <3>2 DEF ShowRecord
  <2> QED
    BY <2>1, <2>3, <2>4 DEF NewShow
<1>4. show' = Append(show, n)
  BY DEF Replace
<1> HIDE DEF n
<1>5. /\ show' \in Seq(ShowRecord) /\ Len(show') = player'
      /\ show'[player'] = n
      /\ \A t \in 1 .. player : show'[t] = show[t]
  BY <1>1, <1>3, <1>4
<1>6. UNCHANGED <<photos, pendingStatus>> /\ astray' = astray
  BY DEF Replace, state, history
<1>7. \A t \in 1 .. player : show[t].stopped
  BY <1>1 DEF IInv, ShowsInv, ShowInv, CallbackInv, Replace
<1>8. ShowsOK'
  BY <1>5 DEF ShowsOK
<1>9. ShowsInv'
  <2> SUFFICES ASSUME NEW t \in 1 .. player'
               PROVE  /\ ShowInv(t, show[t])'
                      /\ (t \notin astray /\ ~show[t].stopped => Handshake(show[t]))'
    BY DEF ShowsInv
  <2>1. CASE t = player'
    <3>1. show'[t] = n
      BY <1>5, <2>1
    <3>2. ShowInv(t, show[t])'
      BY <1>3, <1>6, <2>1, <3>1 DEF ShowInv
    <3>3. Handshake(n)
      BY <1>3 DEF Handshake
    <3>4. Handshake(show[t])'
      BY <3>1, <3>3 DEF Handshake, NextIndex
    <3> QED
      BY <3>2, <3>4
  <2>2. CASE t # player'
    <3>1. t \in 1 .. player
      BY <1>1, <2>2
    <3>2. show'[t] = show[t] /\ show[t].stopped
      BY <1>5, <1>7, <3>1
    <3>3. ShowInv(t, show[t])
      BY <3>1 DEF IInv, ShowsInv
    <3>4. 1 .. player \subseteq 1 .. player'
      BY <1>1
    <3>5. ShowInv(t, show[t])'
      BY <1>6, <3>2, <3>3, <3>4 DEF ShowInv
    <3> QED
      BY <3>2, <3>5
  <2> QED
    BY <2>1, <2>2
<1>10. doing' \in Steps /\ doing'.step \in {"init", "idle"}
  BY Callbacks DEF IInv, Replace
<1>11. player' \in 0 .. MaxShows /\ player' # 0
  BY <1>1, Bounds
<1>12. DataOK'
  BY <1>10, <1>11 DEF IInv, DataOK, Replace, state, history
<1>13. CallbackInv'
  BY <1>6, <1>10, <1>11 DEF CallbackInv
<1> QED
  BY <1>8, <1>9, <1>12, <1>13 DEF IInv

\* Shows of a deleted album keep their size.
LEMMA DeleteUploadsKeepsInv ==
  ASSUME IInv, DeleteUploads
  PROVE  IInv'
<1>1. player \in Nat /\ show \in [1 .. player -> ShowRecord] /\ player' = player
  BY Bounds, ShowsAre DEF IInv, DataOK, DeleteUploads
<1>2. /\ show' \in [1 .. player -> ShowRecord]
      /\ \A t \in 1 .. player :
           show'[t] = [show[t] EXCEPT !.deleted = @ \/ show[t].album = Uploads]
  <2>1. show' = [t \in 1 .. player |-> [show[t] EXCEPT !.deleted = @ \/ show[t].album = Uploads]]
    BY <1>1 DEF DeleteUploads
  <2>2. ASSUME NEW t \in 1 .. player
        PROVE  [show[t] EXCEPT !.deleted = @ \/ show[t].album = Uploads] \in ShowRecord
    <3>1. show[t] \in ShowRecord
      BY <1>1
    <3> QED
      BY <3>1 DEF ShowRecord
  <2> QED
    BY <2>1, <2>2
<1>3. ASSUME NEW t \in 1 .. player
      PROVE  LET r == show[t]  q == show'[t] IN
             /\ q.album = r.album /\ q.size = r.size
             /\ q.deleted = (r.deleted \/ r.album = Uploads)
             /\ q.currentIndex = r.currentIndex /\ q.currentImage = r.currentImage
             /\ q.nextImage = r.nextImage /\ q.initialized = r.initialized /\ q.at = r.at
             /\ q.stopped = r.stopped /\ q.interrupted = r.interrupted /\ q.screen = r.screen
             /\ q.pool = r.pool /\ q.poolAt = r.poolAt /\ q.plays = r.plays
  <2>1. show[t] \in ShowRecord
    BY <1>1
  <2> QED
    BY <1>2, <2>1 DEF ShowRecord
<1>4. /\ astray' = astray /\ pendingStatus' = pendingStatus
      /\ photos' = [photos EXCEPT ![Uploads] = 0]
  BY DEF DeleteUploads, history
<1>5. ShowsOK'
  BY <1>1, <1>2 DEF ShowsOK
<1>6. ShowsInv'
  <2> SUFFICES ASSUME NEW t \in 1 .. player
               PROVE  /\ ShowInv(t, show[t])'
                      /\ (t \notin astray /\ ~show[t].stopped => Handshake(show[t]))'
    BY <1>1 DEF ShowsInv
  <2>1. ShowInv(t, show[t]) /\ (t \notin astray /\ ~show[t].stopped => Handshake(show[t]))
    BY DEF IInv, ShowsInv
  <2>2. ShowInv(t, show[t])'
    BY <1>1, <1>3, <1>4, <2>1 DEF ShowInv
  <2>3. (t \notin astray /\ ~show[t].stopped => Handshake(show[t]))'
    BY <1>3, <1>4, <2>1, SameHandshake
  <2> QED
    BY <2>2, <2>3
<1>7. doing' \in Steps /\ doing'.step = "idle"
  BY Callbacks DEF IInv, DeleteUploads
<1>8. DataOK'
  <2>1. photos \in [Album -> 0 .. MaxPhotos] /\ 0 \in 0 .. MaxPhotos
    BY Bounds DEF IInv, DataOK
  <2>2. photos' \in [Album -> 0 .. MaxPhotos]
    BY <1>4, <2>1
  <2> QED
    BY <1>7, <2>2 DEF IInv, DataOK, DeleteUploads, history
<1>9. CallbackInv'
  BY <1>1, <1>4, <1>7 DEF IInv, CallbackInv, DeleteUploads
<1> QED
  BY <1>5, <1>6, <1>8, <1>9 DEF IInv

LEMMA Resets ==
  ASSUME DataOK, NEW album \in Album, NEW last \in BOOLEAN, NEW init \in BOOLEAN
  PROVE  /\ Reset(album, last, init) \in Steps
         /\ Reset(album, last, init).step = IF player = 0 THEN "replace" ELSE "stop"
         /\ Reset(album, last, init).then = "replace"
         /\ Reset(album, last, init).album = album
  BY DEF Reset, Steps

\* The shows stay as they are when neither they nor the library change.
LEMMA ShowsUnchanged ==
  ASSUME IInv, UNCHANGED <<photos, player, show>>, astray' = astray
  PROVE  ShowsOK' /\ ShowsInv'
<1>1. ShowsOK'
  BY DEF IInv, ShowsOK
<1>2. ASSUME NEW t \in 1 .. player
      PROVE  /\ ShowInv(t, show[t])'
             /\ (t \notin astray /\ ~show[t].stopped => Handshake(show[t]))'
  BY DEF IInv, ShowsInv, ShowInv, Handshake, NextIndex
<1> QED
  BY <1>1, <1>2 DEF ShowsInv

LEMMA OnStartKeepsInv ==
  ASSUME IInv, NEW album \in Album, OnStart(album)
  PROVE  IInv'
<1>1. UNCHANGED <<photos, player, show>> /\ astray' = astray
  BY DEF OnStart, history
<1>2. isPlaybackAllowed \in BOOLEAN
  BY DEF isPlaybackAllowed
<1>3. /\ doing' \in Steps /\ doing'.step = IF player = 0 THEN "replace" ELSE "stop"
      /\ doing'.then = "replace" /\ doing'.album = album
  <2>1. PICK init \in BOOLEAN, last \in BOOLEAN : doing' = Reset(album, last, init)
    BY <1>2, Zenon DEF OnStart
  <2>2. DataOK
    BY DEF IInv
  <2> QED
    BY <2>1, <2>2, Resets
<1>4. requests' \in 0 .. MaxRequests
  BY Bounds DEF IInv, DataOK, OnStart, Receive
<1>5. DataOK'
  BY <1>3, <1>4 DEF IInv, DataOK, OnStart, history
<1>6. CallbackInv'
  BY <1>1, <1>3 DEF CallbackInv, OnStart
<1> QED
  BY <1>1, <1>5, <1>6, ShowsUnchanged DEF IInv

LEMMA OnDeleteKeepsInv ==
  ASSUME IInv, OnDelete
  PROVE  IInv'
<1>1. UNCHANGED <<photos, player, show, pendingStatus>> /\ astray' = astray
  BY DEF OnDelete, state, history
<1>2. /\ doing' \in Steps /\ doing'.then = "delete"
      /\ doing'.step \in {"stop", "delete"} /\ (doing'.step = "stop" => player # 0)
  BY Callbacks DEF IInv, OnDelete
<1>3. requests' \in 0 .. MaxRequests
  BY Bounds DEF IInv, DataOK, OnDelete, Receive
<1>4. DataOK'
  BY <1>2, <1>3 DEF IInv, DataOK, OnDelete, state, history
<1>5. doing.step = "idle"
  BY Callbacks DEF IInv, OnDelete, Receive
<1>6. CallbackInv'
  BY <1>1, <1>2, <1>5 DEF IInv, CallbackInv
<1> QED
  BY <1>1, <1>4, <1>6, ShowsUnchanged DEF IInv

\* A show of Uploads grows with its album, which puts it astray; no other does.
LEMMA OnUploadKeepsInv ==
  ASSUME IInv, OnUpload
  PROVE  IInv'
<1> DEFINE growing == {s \in DOMAIN show : show[s].album = Uploads /\ ~show[s].deleted}
<1>1. player \in Nat /\ show \in [1 .. player -> ShowRecord] /\ player' = player
  BY Bounds, ShowsAre DEF IInv, DataOK, OnUpload
<1>2. /\ photos[Uploads] \in 0 .. MaxPhotos /\ photos[Uploads] < MaxPhotos
      /\ photos' = [photos EXCEPT ![Uploads] = @ + 1]
      /\ photos' \in [Album -> 0 .. MaxPhotos] /\ photos'[Uploads] = photos[Uploads] + 1
  <2>1. photos[Uploads] < MaxPhotos /\ photos' = [photos EXCEPT ![Uploads] = @ + 1]
    BY DEF OnUpload
  <2>2. photos \in [Album -> 0 .. MaxPhotos] /\ Uploads \in Album
    BY AlbumAssumption DEF IInv, DataOK
  <2>3. photos[Uploads] \in 0 .. MaxPhotos /\ photos[Uploads] + 1 \in 0 .. MaxPhotos
    BY <2>1, <2>2, Bounds
  <2> QED
    BY <2>1, <2>2, <2>3
<1>3. astray' = astray \cup growing /\ growing \subseteq 1 .. player
  BY <1>1 DEF OnUpload
<1>4. \A t \in 1 .. player : t \in growing <=> show[t].album = Uploads /\ ~show[t].deleted
  BY <1>1
<1>5. show' = [s \in 1 .. player |->
                 IF s \in growing THEN [show[s] EXCEPT !.size = @ + 1] ELSE show[s]]
  BY <1>1 DEF OnUpload
<1> HIDE DEF growing
<1>6. ASSUME NEW t \in growing
      PROVE  /\ show[t] \in ShowRecord /\ show[t].album = Uploads /\ ~show[t].deleted
             /\ show[t].size = photos[Uploads]
             /\ show[t].size + 1 \in 0 .. MaxPhotos
             /\ [show[t] EXCEPT !.size = @ + 1] \in ShowRecord
  <2>1. show[t] \in ShowRecord /\ show[t].album = Uploads /\ ~show[t].deleted /\ t \in 1 .. player
    BY <1>1, <1>3, <1>4
  <2>2. show[t].size = photos[Uploads]
    BY <2>1 DEF IInv, ShowsInv, ShowInv
  <2>3. show[t].size + 1 \in 0 .. MaxPhotos
    BY <1>2, <2>2, Bounds
  <2> QED
    BY <2>1, <2>2, <2>3 DEF ShowRecord
<1>7. /\ show' \in [1 .. player -> ShowRecord]
      /\ \A t \in 1 .. player :
           show'[t] = IF t \in growing THEN [show[t] EXCEPT !.size = @ + 1] ELSE show[t]
  BY <1>1, <1>5, <1>6
<1>8. ASSUME NEW t \in growing
      PROVE  LET r == show[t]  q == show'[t] IN
             /\ q.album = r.album /\ q.size = r.size + 1 /\ q.deleted = r.deleted
             /\ q.currentIndex = r.currentIndex /\ q.at = r.at
             /\ q.stopped = r.stopped /\ q.interrupted = r.interrupted
             /\ q.poolAt = r.poolAt /\ q.plays = r.plays
  <2>1. show[t] \in ShowRecord /\ show'[t] = [show[t] EXCEPT !.size = @ + 1]
    BY <1>3, <1>6, <1>7
  <2> QED
    BY <2>1 DEF ShowRecord
<1>9. ShowsOK'
  BY <1>1, <1>7 DEF ShowsOK
<1>10. ShowsInv'
  <2> SUFFICES ASSUME NEW t \in 1 .. player
               PROVE  /\ ShowInv(t, show[t])'
                      /\ (t \notin astray /\ ~show[t].stopped => Handshake(show[t]))'
    BY <1>1 DEF ShowsInv
  <2>1. ShowInv(t, show[t]) /\ (t \notin astray /\ ~show[t].stopped => Handshake(show[t]))
    BY DEF IInv, ShowsInv
  <2>2. CASE t \in growing
    <3>1. show[t].currentIndex \in Int /\ show[t].size \in Int
      <4>1. show[t] \in ShowRecord
        BY <1>6, <2>2
      <4>2. show[t].currentIndex \in Index /\ show[t].size \in 0 .. MaxPhotos
        BY <4>1 DEF ShowRecord
      <4> QED
        BY <4>2, Bounds DEF Index
    <3>2. show'[t].currentIndex < show'[t].size
      BY <1>8, <2>1, <2>2, <3>1 DEF ShowInv
    <3>3. ShowInv(t, show[t])'
      BY <1>1, <1>2, <1>3, <1>6, <1>8, <2>1, <2>2, <3>2 DEF ShowInv
    <3> QED
      BY <1>3, <2>2, <3>3
  <2>3. CASE t \notin growing
    <3>1. show'[t] = show[t] /\ ~(show[t].album = Uploads /\ ~show[t].deleted)
      BY <1>4, <1>7, <2>3
    <3>2. ShowInv(t, show[t])'
      BY <1>1, <1>3, <2>1, <3>1 DEF ShowInv
    <3>3. (t \notin astray /\ ~show[t].stopped => Handshake(show[t]))'
      BY <1>3, <2>1, <3>1 DEF Handshake, NextIndex
    <3> QED
      BY <3>2, <3>3
  <2> QED
    BY <2>2, <2>3
<1>11. /\ doing' \in Steps /\ doing'.step = IF player = 0 THEN "replace" ELSE "stop"
       /\ doing'.then = "replace" /\ doing'.album = Uploads
  <2>1. PICK init \in BOOLEAN, last \in BOOLEAN : doing' = Reset(Uploads, last, init)
    BY Zenon DEF OnUpload
  <2>2. DataOK /\ Uploads \in Album
    BY AlbumAssumption DEF IInv
  <2> QED
    BY <2>1, <2>2, Resets
<1>12. requests' \in 0 .. MaxRequests
  BY Bounds DEF IInv, DataOK, OnUpload, Receive
<1>13. astray' \subseteq Shows
  <2>1. 1 .. player \subseteq Shows
    BY Bounds DEF IInv, DataOK, Shows
  <2> QED
    BY <1>3, <2>1 DEF IInv, DataOK
<1>14. DataOK'
  BY <1>2, <1>11, <1>12, <1>13 DEF IInv, DataOK, OnUpload
<1>15. CallbackInv'
  <2>1. photos'[Uploads] > 0 /\ player < MaxShows
    BY <1>2 DEF OnUpload
  <2>2. player' = player /\ pendingStatus' = pendingStatus
    BY DEF OnUpload
  <2>3. doing.step = "idle"
    BY Callbacks DEF IInv, OnUpload, Receive
  <2> QED
    BY <1>11, <2>1, <2>2, <2>3 DEF IInv, CallbackInv
<1> QED
  BY <1>9, <1>10, <1>14, <1>15 DEF IInv

\* The first half of a pause changes the status only.
LEMMA PauseShowKeeps ==
  ASSUME IInv, player # 0, PauseShow, UNCHANGED <<photos, player>>, astray' = astray
  PROVE  ShowsOK' /\ ShowsInv' /\ doing' \in Steps /\ doing'.step = "pause"
<1> DEFINE q == [show[player] EXCEPT !.status = "PAUSED"]
<1>1. /\ show[player] \in ShowRecord /\ show \in [1 .. player -> ShowRecord]
      /\ player \in 1 .. player
      /\ show[player].currentIndex < show[player].size
      /\ show[player].interrupted \/ show[player].at = "ended" => show[player].stopped
      /\ player \notin astray /\ ~show[player].stopped => Handshake(show[player])
  BY PlayersShow
<1>2. show' = [show EXCEPT ![player] = q]
  BY <1>1 DEF PauseShow
<1>3. Keeps(show[player], q) /\ Alike(show[player], q) /\ q.poolAt = show[player].poolAt
  <2>1. q \in ShowRecord
    BY <1>1 DEF ShowRecord
  <2>2. /\ Alike(show[player], q)
        /\ q.poolAt = show[player].poolAt /\ q.plays = show[player].plays
    BY <1>1 DEF ShowRecord, Alike
  <2> QED
    BY <1>1, <2>1, <2>2 DEF Keeps, Alike
<1> HIDE DEF q
<1>4. player \notin astray' /\ ~q.stopped => Handshake(q)
  BY <1>1, <1>3, SameHandshake DEF Alike
<1>5. ShowsOK' /\ ShowsInv'
  BY <1>2, <1>3, <1>4, CallbackStep
<1>6. doing' \in Steps /\ doing'.step = "pause"
  BY Callbacks DEF IInv, PauseShow
<1> QED
  BY <1>5, <1>6

LEMMA OnPauseKeepsInv ==
  ASSUME IInv, OnPause
  PROVE  IInv'
<1>1. UNCHANGED <<photos, mode, position, player, faults, swallowed>> /\ astray' = astray
      /\ pendingStatus' = "PAUSED"
  BY DEF OnPause, history
<1>2. doing.step = "idle" /\ doing \in Steps
  BY Callbacks DEF IInv, OnPause, Receive
<1>3. ShowsOK' /\ ShowsInv' /\ doing' \in Steps /\ doing'.step \in {"pause", "idle"}
      /\ (doing'.step = "pause" => player # 0)
  <2>1. CASE player # 0 /\ PauseShow
    BY <1>1, <2>1, PauseShowKeeps
  <2>2. CASE UNCHANGED <<show, doing>>
    BY <1>1, <1>2, <2>2, ShowsUnchanged
  <2> QED
    BY <2>1, <2>2 DEF OnPause
<1>4. requests' \in 0 .. MaxRequests
  BY Bounds DEF IInv, DataOK, OnPause, Receive
<1>5. DataOK'
  BY <1>1, <1>3, <1>4 DEF IInv, DataOK
<1>6. CallbackInv'
  BY <1>1, <1>3 DEF CallbackInv
<1> QED
  BY <1>3, <1>5, <1>6 DEF IInv

LEMMA OnGeoUpdateKeepsInv ==
  ASSUME IInv, OnGeoUpdate
  PROVE  IInv'
<1>1. UNCHANGED <<photos, pendingStatus, player, faults, swallowed>> /\ astray' = astray
      /\ mode' \in Modes /\ position' \in Positions
  BY DEF OnGeoUpdate, history, IInv, DataOK
<1>2. doing.step = "idle" /\ doing \in Steps
  BY Callbacks DEF IInv, OnGeoUpdate, Receive
<1>3. pendingStatus = "PLAYING" => player # 0
  BY <1>2 DEF IInv, CallbackInv
<1>4. ShowsOK' /\ ShowsInv' /\ doing' \in Steps /\ doing'.step \in {"pause", "init", "idle"}
      /\ (doing'.step \in {"pause", "init"} => player # 0)
  <2>1. CASE player # 0 /\ PauseShow
    BY <1>1, <2>1, PauseShowKeeps
  <2>2. CASE pendingStatus = "PLAYING" /\ doing' = At("init") /\ UNCHANGED show
    BY <1>1, <1>3, <2>2, Callbacks, ShowsUnchanged DEF IInv
  <2>3. CASE UNCHANGED <<show, doing>>
    BY <1>1, <1>2, <2>3, ShowsUnchanged
  <2> QED
    BY <2>1, <2>2, <2>3 DEF OnGeoUpdate, HandleStateUpdate
<1>5. requests' \in 0 .. MaxRequests
  BY Bounds DEF IInv, DataOK, OnGeoUpdate, Receive
<1>6. DataOK'
  BY <1>1, <1>4, <1>5 DEF IInv, DataOK
<1>7. CallbackInv'
  BY <1>1, <1>3, <1>4 DEF CallbackInv
<1> QED
  BY <1>4, <1>6, <1>7 DEF IInv

-----------------------------------------------------------------------------
(* The next photo is coming.                                                 *)

\* One show changes, and only the callbacks change what they are about.
LEMMA WaitOne ==
  ASSUME IInv, WaitInv, DeletedInv, NEW s \in 1 .. player, NEW q \in ShowRecord,
         show' = [show EXCEPT ![s] = q], player' = player, astray \subseteq astray',
         faults' = 0 => faults = 0,
         q.album = show[s].album, q.deleted = show[s].deleted, show[s].stopped => q.stopped,
         s \notin astray' /\ ~q.stopped /\ faults' = 0 => GoesOn(q),
         doing'.step = "delete" => doing.step = "delete" \/ show[player].stopped
  PROVE  WaitInv' /\ DeletedInv'
<1>1. show'[s] = q /\ \A t \in 1 .. player : t # s => show'[t] = show[t]
  BY ChangeShow DEF IInv
<1>2. ASSUME NEW t \in 1 .. player, t \notin astray', ~show'[t].stopped, faults' = 0
      PROVE  GoesOn(show[t])'
  <2>1. CASE t = s
    BY <1>1, <1>2, <2>1 DEF GoesOn, Coming, NextIndex
  <2>2. CASE t # s
    BY <1>1, <1>2, <2>2 DEF WaitInv, GoesOn, Coming, NextIndex
  <2> QED
    BY <2>1, <2>2
<1>3. ASSUME NEW t \in 1 .. player,
             show'[t].deleted \/ (doing'.step = "delete" /\ show'[t].album = Uploads)
      PROVE  show'[t].stopped
  <2>1. show'[t].deleted = show[t].deleted /\ show'[t].album = show[t].album
        /\ (show[t].stopped => show'[t].stopped)
    BY <1>1
  <2>2. t # player => show[t].stopped
    BY DEF IInv, ShowsInv, ShowInv
  <2> QED
    BY <1>3, <2>1, <2>2 DEF DeletedInv
<1> QED
  BY <1>2, <1>3 DEF WaitInv, DeletedInv

LEMMA WaitNone ==
  ASSUME IInv, WaitInv, DeletedInv, UNCHANGED <<show, player, faults>>, astray' = astray,
         doing'.step = "delete" =>
           \/ doing.step = "delete"
           \/ \A t \in 1 .. player : show[t].album = Uploads => show[t].stopped
  PROVE  WaitInv' /\ DeletedInv'
<1>1. ASSUME NEW t \in 1 .. player, t \notin astray', ~show'[t].stopped, faults' = 0
      PROVE  GoesOn(show[t])'
  BY <1>1 DEF WaitInv, GoesOn, Coming, NextIndex
<1>2. ASSUME NEW t \in 1 .. player,
             show'[t].deleted \/ (doing'.step = "delete" /\ show'[t].album = Uploads)
      PROVE  show'[t].stopped
  BY <1>2 DEF DeletedInv
<1> QED
  BY <1>1, <1>2 DEF WaitInv, DeletedInv

LEMMA WaitOwnSteps ==
  ASSUME IInv, WaitInv, DeletedInv, NEW s \in Shows,
         Run(s) \/ PreviewFails(s) \/ Generate(s) \/ Store(s) \/ Complete(s)
  PROVE  WaitInv' /\ DeletedInv'
<1>1. PICK q : OwnChange(s, q)
  BY OwnStepsChange
<1>2. /\ s \in 1 .. player /\ UNCHANGED <<player, doing>> /\ astray' = astray
      /\ faults' = 0 => faults = 0
  BY OwnStepsFrame
<1>3. /\ q \in ShowRecord /\ q.album = show[s].album /\ q.deleted = show[s].deleted
      /\ show[s].stopped => q.stopped
  BY <1>1 DEF OwnChange, Keeps
<1>4. s \notin astray' /\ ~q.stopped /\ faults' = 0 => GoesOn(q)
  <2>1. ~q.stopped => ~show[s].stopped /\ ~show[s].deleted
    BY <1>2, <1>3 DEF DeletedInv
  <2> QED
    BY <1>1, <1>2, <2>1 DEF OwnChange, WaitInv
<1> QED
  BY <1>1, <1>2, <1>3, <1>4, WaitOne DEF OwnChange

\* A show that is played does not wait for a photo yet, unless it is astray.
LEMMA WaitPlay ==
  ASSUME IInv, WaitInv, DeletedInv, NEW s \in Shows, PlayPlayer(s)
  PROVE  WaitInv' /\ DeletedInv'
<1>1. s \in 1 .. player /\ show[s].poolAt = "play"
  <2>1. s \in DOMAIN show /\ show[s].poolAt = "play"
    BY DEF PlayPlayer, PoolStep
  <2> QED
    BY <2>1, ShowOf
<1>2. /\ UNCHANGED <<player, doing, faults>> /\ astray \subseteq astray'
  BY DEF PlayPlayer
<1>3. ASSUME NEW t \in 1 .. player
      PROVE  /\ Alike(show[t], show'[t])
             /\ t # s => show'[t].poolAt = show[t].poolAt
  BY PlayPlayerIs
<1>4. ASSUME NEW t \in 1 .. player, t \notin astray', ~show'[t].stopped, faults' = 0
      PROVE  GoesOn(show[t])'
  <2>1. CASE t = s
    <3>1. Handshake(show[s])
      BY <1>1, <1>2, <1>3, <1>4, <2>1 DEF IInv, ShowsInv, Alike
    <3>2. show[s].at = "new"
      BY <1>1, <3>1 DEF Handshake
    <3> QED
      BY <1>3, <2>1, <3>2 DEF GoesOn, Alike
  <2>2. CASE t # s
    <3>1. GoesOn(show[t])
      BY <1>2, <1>3, <1>4 DEF WaitInv, Alike
    <3> QED
      BY <1>3, <2>2, <3>1 DEF GoesOn, Coming, NextIndex, Alike
  <2> QED
    BY <2>1, <2>2
<1>5. DeletedInv'
  BY <1>2, <1>3 DEF DeletedInv, Alike
<1> QED
  BY <1>2, <1>4, <1>5 DEF WaitInv

\* A task that plays a show ends, and the show, its own or another, has a thread.
LEMMA StartThreadIs ==
  ASSUME IInv, NEW s \in Shows, StartThread(s)
  PROVE  LET p == show[s].plays IN
         /\ s \in 1 .. player /\ show[s].poolAt = "start"
         /\ p \in 1 .. player /\ (p # s => p \in astray)
         /\ \A t \in 1 .. player :
              /\ show'[t].album = show[t].album /\ show'[t].deleted = show[t].deleted
              /\ show'[t].stopped = show[t].stopped
              /\ show'[t].interrupted = show[t].interrupted
              /\ show'[t].at = IF t = p /\ show[t].at = "new" THEN "top" ELSE show[t].at
              /\ t # s /\ t # p => show'[t] = show[t]
<1>1. s \in DOMAIN show /\ show[s].poolAt = "start" /\ show[s].pool # <<>>
  BY DEF StartThread, PoolStep
<1>2. s \in 1 .. player /\ show \in [1 .. player -> ShowRecord]
  BY <1>1, ShowOf
<1> DEFINE p == show[s].plays
           done == Done(show[s])
           mid == [show EXCEPT ![s] = done]
           Same(r, q) == /\ q.album = r.album /\ q.deleted = r.deleted
                         /\ q.stopped = r.stopped /\ q.interrupted = r.interrupted
<1>3. p \in 1 .. player /\ (p # s => p \in astray)
  BY <1>1, <1>2 DEF IInv, ShowsInv, ShowInv
<1>4. show' = [mid EXCEPT ![p] = Started(mid[p])]
  BY <1>2 DEF StartThread
<1>5. done \in ShowRecord /\ Same(show[s], done) /\ done.at = show[s].at
  <2>1. show[s] \in ShowRecord
    BY <1>2
  <2>2. Tail(show[s].pool) \in Seq(Index)
    BY <1>1, <2>1 DEF ShowRecord
  <2> QED
    BY <2>1, <2>2 DEF Done, ShowRecord
<1> HIDE DEF done
<1>6. /\ mid \in [1 .. player -> ShowRecord] /\ mid[s] = done
      /\ \A t \in 1 .. player : t # s => mid[t] = show[t]
  BY <1>2, <1>5
<1> HIDE DEF mid, p
<1>7. ASSUME NEW t \in 1 .. player
      PROVE  /\ Same(show[t], mid[t]) /\ mid[t].at = show[t].at
             /\ Same(show[t], Started(mid[t]))
             /\ Started(mid[t]).at = IF show[t].at = "new" THEN "top" ELSE show[t].at
  <2>1. mid[t] \in ShowRecord
    BY <1>6
  <2>2. Same(show[t], mid[t]) /\ mid[t].at = show[t].at
    BY <1>5, <1>6
  <2> QED
    BY <2>1, <2>2 DEF Started, ShowRecord
<1>8. ASSUME NEW t \in 1 .. player
      PROVE  show'[t] = IF t = p THEN Started(mid[t]) ELSE mid[t]
  BY <1>3, <1>4, <1>6
<1> QED
  BY <1>1, <1>2, <1>3, <1>6, <1>7, <1>8 DEF p

LEMMA WaitStart ==
  ASSUME IInv, WaitInv, DeletedInv, NEW s \in Shows, StartThread(s)
  PROVE  WaitInv' /\ DeletedInv'
<1> DEFINE p == show[s].plays
<1>1. /\ s \in 1 .. player /\ show[s].poolAt = "start" /\ (p # s => p \in astray)
      /\ \A t \in 1 .. player :
           /\ show'[t].album = show[t].album /\ show'[t].deleted = show[t].deleted
           /\ show'[t].stopped = show[t].stopped
           /\ show'[t].at = IF t = p /\ show[t].at = "new" THEN "top" ELSE show[t].at
           /\ t # s /\ t # p => show'[t] = show[t]
  BY StartThreadIs
<1>2. UNCHANGED <<player, doing, faults>> /\ astray' = astray
  BY DEF StartThread, history
<1> HIDE DEF p
<1>3. ASSUME NEW t \in 1 .. player, t \notin astray', ~show'[t].stopped, faults' = 0
      PROVE  GoesOn(show[t])'
  <2>1. CASE t = s
    <3>1. Handshake(show[s])
      BY <1>1, <1>2, <1>3, <2>1 DEF IInv, ShowsInv
    <3>2. show[s].at = "new"
      BY <1>1, <3>1 DEF Handshake
    <3>3. show'[t].at \in {"new", "top"}
      BY <1>1, <2>1, <3>2
    <3> QED
      BY <3>3 DEF GoesOn
  <2>2. CASE t # s
    <3>1. show'[t] = show[t]
      BY <1>1, <1>2, <1>3, <2>2
    <3> QED
      BY <1>2, <1>3, <3>1 DEF WaitInv, GoesOn, Coming, NextIndex
  <2> QED
    BY <2>1, <2>2
<1>4. DeletedInv'
  BY <1>1, <1>2 DEF DeletedInv
<1> QED
  BY <1>2, <1>3, <1>4 DEF WaitInv

\* A callback that changes the player's show but for what it is waiting for.
LEMMA WaitCallback ==
  ASSUME IInv, WaitInv, DeletedInv, player # 0, NEW q \in ShowRecord,
         show' = [show EXCEPT ![player] = q], UNCHANGED <<player, faults>>, astray' = astray,
         q.album = show[player].album, q.deleted = show[player].deleted,
         show[player].stopped => q.stopped,
         q.stopped \/ (q.at = show[player].at /\ q.currentIndex = show[player].currentIndex
                       /\ q.size = show[player].size /\ q.nextImage = show[player].nextImage
                       /\ q.pool = show[player].pool /\ q.poolAt = show[player].poolAt),
         doing'.step = "delete" => show[player].stopped
  PROVE  WaitInv' /\ DeletedInv'
<1>1. player \in 1 .. player
  BY PlayersShow
<1>2. player \notin astray' /\ ~q.stopped /\ faults' = 0 => GoesOn(q)
  BY <1>1 DEF WaitInv, GoesOn, Coming, NextIndex
<1> QED
  BY <1>1, <1>2, WaitOne

LEMMA WaitSetStopped ==
  ASSUME IInv, WaitInv, DeletedInv, SetStopped
  PROVE  WaitInv' /\ DeletedInv'
<1> DEFINE q == [show[player] EXCEPT !.stopped = TRUE]
<1>1. player # 0 /\ doing \in Steps
  BY DEF IInv, CallbackInv, DataOK, SetStopped
<1>2. show[player] \in ShowRecord /\ show \in [1 .. player -> ShowRecord] /\ player \in 1 .. player
  BY <1>1, PlayersShow
<1>3. /\ show' = [show EXCEPT ![player] = q] /\ q \in ShowRecord /\ q.stopped
      /\ q.album = show[player].album /\ q.deleted = show[player].deleted
  BY <1>2 DEF SetStopped, ShowRecord
<1>4. UNCHANGED <<player, faults>> /\ astray' = astray /\ doing'.step = "interrupt"
  BY <1>1 DEF SetStopped, history, Steps
<1> QED
  BY <1>1, <1>3, <1>4, WaitCallback

LEMMA WaitInterrupt ==
  ASSUME IInv, WaitInv, DeletedInv, Interrupt
  PROVE  WaitInv' /\ DeletedInv'
<1> DEFINE q == [show[player] EXCEPT !.interrupted = (show[player].at \notin {"new", "ended"})]
<1>1. player # 0 /\ show[player].stopped
  BY DEF IInv, CallbackInv, Interrupt
<1>2. show[player] \in ShowRecord /\ show \in [1 .. player -> ShowRecord] /\ player \in 1 .. player
  BY <1>1, PlayersShow
<1>3. /\ show' = [show EXCEPT ![player] = q] /\ q \in ShowRecord
      /\ q.album = show[player].album /\ q.deleted = show[player].deleted
      /\ q.stopped = show[player].stopped
  BY <1>2 DEF Interrupt, ShowRecord
<1>4. UNCHANGED <<player, faults>> /\ astray' = astray
  BY DEF Interrupt, history
<1> QED
  BY <1>1, <1>3, <1>4, WaitCallback

LEMMA WaitSetPaused ==
  ASSUME IInv, WaitInv, DeletedInv, SetPaused
  PROVE  WaitInv' /\ DeletedInv'
<1> DEFINE q == [show[player] EXCEPT !.paused = TRUE]
<1>1. player # 0
  BY DEF IInv, CallbackInv, SetPaused
<1>2. show[player] \in ShowRecord /\ show \in [1 .. player -> ShowRecord] /\ player \in 1 .. player
  BY <1>1, PlayersShow
<1>3. /\ show' = [show EXCEPT ![player] = q] /\ q \in ShowRecord
      /\ q.album = show[player].album /\ q.deleted = show[player].deleted
      /\ q.stopped = show[player].stopped /\ q.at = show[player].at
      /\ q.currentIndex = show[player].currentIndex /\ q.size = show[player].size
      /\ q.nextImage = show[player].nextImage /\ q.pool = show[player].pool
      /\ q.poolAt = show[player].poolAt
  BY <1>2 DEF SetPaused, ShowRecord
<1>4. UNCHANGED <<player, faults>> /\ astray' = astray /\ doing'.step # "delete"
  BY Callbacks DEF SetPaused, history, IInv
<1> QED
  BY <1>1, <1>3, <1>4, WaitCallback

LEMMA WaitPauseShow ==
  ASSUME IInv, WaitInv, DeletedInv, player # 0, PauseShow, UNCHANGED <<player, faults>>,
         astray' = astray
  PROVE  WaitInv' /\ DeletedInv'
<1> DEFINE q == [show[player] EXCEPT !.status = "PAUSED"]
<1>1. show[player] \in ShowRecord /\ show \in [1 .. player -> ShowRecord] /\ player \in 1 .. player
  BY PlayersShow
<1>2. /\ show' = [show EXCEPT ![player] = q] /\ q \in ShowRecord
      /\ q.album = show[player].album /\ q.deleted = show[player].deleted
      /\ q.stopped = show[player].stopped /\ q.at = show[player].at
      /\ q.currentIndex = show[player].currentIndex /\ q.size = show[player].size
      /\ q.nextImage = show[player].nextImage /\ q.pool = show[player].pool
      /\ q.poolAt = show[player].poolAt
  BY <1>1 DEF PauseShow, ShowRecord
<1>3. doing'.step # "delete"
  BY Callbacks DEF PauseShow, IInv
<1> QED
  BY <1>2, <1>3, WaitCallback

LEMMA WaitInitShow ==
  ASSUME IInv, WaitInv, DeletedInv, InitShow
  PROVE  WaitInv' /\ DeletedInv'
<1> DEFINE q == [show[player] EXCEPT !.pool = Append(@, show[player].currentIndex)]
<1>1. player # 0
  BY DEF IInv, CallbackInv, InitShow
<1>2. show[player] \in ShowRecord /\ show \in [1 .. player -> ShowRecord] /\ player \in 1 .. player
  BY <1>1, PlayersShow
<1>3. Append(show[player].pool, show[player].currentIndex) \in Seq(Index)
  BY <1>2 DEF ShowRecord
<1>4. show' = [show EXCEPT ![player] = q]
  BY <1>2 DEF InitShow
<1>5. /\ q \in ShowRecord
      /\ q.album = show[player].album /\ q.deleted = show[player].deleted
      /\ q.stopped = show[player].stopped /\ q.at = show[player].at
  BY <1>2, <1>3 DEF ShowRecord
<1>6. UNCHANGED <<player, faults>> /\ doing'.step # "delete"
      /\ astray' = IF show[player].at = "new" THEN astray ELSE astray \cup {player}
  BY Callbacks DEF InitShow, IInv
<1>7. player \notin astray' => GoesOn(q)
  BY <1>5, <1>6 DEF GoesOn
<1>8. astray \subseteq astray'
  BY <1>6
<1> HIDE DEF q
<1> QED
  BY <1>2, <1>4, <1>5, <1>6, <1>7, <1>8, WaitOne

LEMMA WaitReplace ==
  ASSUME IInv, WaitInv, DeletedInv, Replace
  PROVE  WaitInv' /\ DeletedInv'
<1>1. /\ player \in Nat /\ player' = player + 1
      /\ show \in Seq(ShowRecord) /\ Len(show) = player
  BY Bounds DEF IInv, DataOK, ShowsOK, Replace
<1> DEFINE n == NewShow(doing.album, doing.last)
<1>2. n.at = "new" /\ ~n.deleted
  BY DEF NewShow
<1>3. show' = Append(show, n)
  BY DEF Replace
<1> HIDE DEF n
<1>4. show'[player'] = n /\ \A t \in 1 .. player : show'[t] = show[t]
  BY <1>1, <1>3
<1>5. astray' = astray /\ faults' = faults /\ doing'.step # "delete"
  BY Callbacks DEF IInv, Replace, history
<1>6. ASSUME NEW t \in 1 .. player', t # player'
      PROVE  t \in 1 .. player /\ show'[t] = show[t]
  BY <1>1, <1>4, <1>6
<1>7. ASSUME NEW t \in 1 .. player', t \notin astray', ~show'[t].stopped, faults' = 0
      PROVE  GoesOn(show[t])'
  <2>1. CASE t = player'
    BY <1>2, <1>4, <2>1 DEF GoesOn
  <2>2. CASE t # player'
    BY <1>5, <1>6, <1>7, <2>2 DEF WaitInv, GoesOn, Coming, NextIndex
  <2> QED
    BY <2>1, <2>2
<1>8. ASSUME NEW t \in 1 .. player', show'[t].deleted
      PROVE  show'[t].stopped
  BY <1>2, <1>4, <1>6, <1>8 DEF DeletedInv
<1> QED
  BY <1>5, <1>7, <1>8 DEF WaitInv, DeletedInv

LEMMA WaitDeleteUploads ==
  ASSUME IInv, WaitInv, DeletedInv, DeleteUploads
  PROVE  WaitInv' /\ DeletedInv'
<1>1. player \in Nat /\ show \in [1 .. player -> ShowRecord] /\ doing.step = "delete"
      /\ UNCHANGED <<player, faults>> /\ astray' = astray
  BY Bounds, ShowsAre DEF IInv, DataOK, DeleteUploads, history
<1>2. doing'.step # "delete"
  BY Callbacks DEF DeleteUploads, IInv
<1>3. ASSUME NEW t \in 1 .. player
      PROVE  LET r == show[t]  q == show'[t] IN
             /\ q.size = r.size /\ q.deleted = (r.deleted \/ r.album = Uploads)
             /\ q.currentIndex = r.currentIndex /\ q.nextImage = r.nextImage /\ q.at = r.at
             /\ q.stopped = r.stopped /\ q.pool = r.pool /\ q.poolAt = r.poolAt
  <2>1. show[t] \in ShowRecord
    BY <1>1
  <2>2. show'[t] = [show[t] EXCEPT !.deleted = @ \/ show[t].album = Uploads]
    BY <1>1 DEF DeleteUploads
  <2> QED
    BY <2>1, <2>2 DEF ShowRecord
<1>4. ASSUME NEW t \in 1 .. player, t \notin astray', ~show'[t].stopped, faults' = 0
      PROVE  GoesOn(show[t])'
  BY <1>1, <1>3, <1>4 DEF WaitInv, GoesOn, Coming, NextIndex
<1>5. ASSUME NEW t \in 1 .. player, show'[t].deleted PROVE show'[t].stopped
  BY <1>1, <1>3, <1>5 DEF DeletedInv
<1> QED
  BY <1>1, <1>2, <1>4, <1>5 DEF WaitInv, DeletedInv

LEMMA WaitOnUpload ==
  ASSUME IInv, WaitInv, DeletedInv, OnUpload
  PROVE  WaitInv' /\ DeletedInv'
<1>1. player \in Nat /\ show \in [1 .. player -> ShowRecord] /\ UNCHANGED <<player, faults>>
  BY Bounds, ShowsAre DEF IInv, DataOK, OnUpload
<1>2. doing'.step # "delete"
  BY DEF OnUpload, Reset
<1>3. ASSUME NEW t \in 1 .. player
      PROVE  \/ show'[t] = show[t]
             \/ t \in astray' /\ ~show'[t].deleted
  <2>1. CASE show[t].album = Uploads /\ ~show[t].deleted
    <3>1. show[t] \in ShowRecord /\ show'[t] = [show[t] EXCEPT !.size = @ + 1] /\ t \in astray'
      BY <1>1, <2>1 DEF OnUpload
    <3> QED
      BY <2>1, <3>1 DEF ShowRecord
  <2>2. CASE ~(show[t].album = Uploads /\ ~show[t].deleted)
    BY <1>1, <2>2 DEF OnUpload
  <2> QED
    BY <2>1, <2>2
<1>4. astray \subseteq astray'
  BY DEF OnUpload
<1>5. ASSUME NEW t \in 1 .. player, t \notin astray', ~show'[t].stopped, faults' = 0
      PROVE  GoesOn(show[t])'
  BY <1>1, <1>3, <1>4, <1>5 DEF WaitInv, GoesOn, Coming, NextIndex
<1>6. ASSUME NEW t \in 1 .. player, show'[t].deleted PROVE show'[t].stopped
  BY <1>3, <1>6 DEF DeletedInv
<1> QED
  BY <1>1, <1>2, <1>5, <1>6 DEF WaitInv, DeletedInv

\* Uploads are deleted at once only when the player does not show them; all
\* other shows are stopped.
LEMMA WaitRequest ==
  ASSUME IInv, WaitInv, DeletedInv, Request
  PROVE  WaitInv' /\ DeletedInv'
<1>1. ASSUME NEW album \in Album, OnStart(album) PROVE WaitInv' /\ DeletedInv'
  <2>1. UNCHANGED <<show, player, faults>> /\ astray' = astray
    BY <1>1 DEF OnStart, history
  <2>2. doing'.step # "delete"
    BY <1>1 DEF OnStart, Reset
  <2> QED
    BY <2>1, <2>2, WaitNone
<1>2. CASE OnUpload
  BY <1>2, WaitOnUpload
<1>3. CASE OnDelete
  <2>1. UNCHANGED <<show, player, faults>> /\ astray' = astray
    BY <1>3 DEF OnDelete, history
  <2>2. doing'.step = "delete" => player = 0 \/ show[player].album # Uploads
    BY <1>3, Callbacks DEF OnDelete, IInv
  <2>3. \A t \in 1 .. player : t # player => show[t].stopped
    BY DEF IInv, ShowsInv, ShowInv
  <2>4. player = 0 => 1 .. player = {}
    OBVIOUS
  <2> QED
    BY <2>1, <2>2, <2>3, <2>4, WaitNone
<1>4. CASE OnPause \/ OnGeoUpdate
  <2>1. UNCHANGED <<player, faults>> /\ astray' = astray /\ doing.step = "idle"
    BY <1>4, Callbacks DEF OnPause, OnGeoUpdate, history, Receive, IInv
  <2>2. CASE player # 0 /\ PauseShow
    BY <2>1, <2>2, WaitPauseShow
  <2>3. CASE UNCHANGED show /\ (doing' = At("init") \/ UNCHANGED doing)
    <3>1. doing'.step # "delete"
      BY <2>1, <2>3, Callbacks DEF IInv
    <3> QED
      BY <2>1, <2>3, <3>1, WaitNone
  <2>4. (player # 0 /\ PauseShow) \/ (UNCHANGED show /\ (doing' = At("init") \/ UNCHANGED doing))
    BY <1>4 DEF OnPause, OnGeoUpdate, HandleStateUpdate
  <2> QED
    BY <2>2, <2>3, <2>4
<1>5. CASE OnInfoRequest
  BY <1>5, WaitNone DEF OnInfoRequest, vars
<1> QED
  BY <1>1, <1>2, <1>3, <1>4, <1>5 DEF Request

LEMMA WaitInductive == IInv /\ WaitInv /\ DeletedInv /\ [Next]_vars => WaitInv' /\ DeletedInv'
<1> SUFFICES ASSUME IInv, WaitInv, DeletedInv, [Next]_vars
             PROVE  WaitInv' /\ DeletedInv'
  OBVIOUS
<1>1. CASE Request
  BY <1>1, WaitRequest
<1>2. CASE Callback
  BY <1>2, WaitSetStopped, WaitInterrupt, WaitReplace, WaitDeleteUploads, WaitInitShow,
     WaitSetPaused DEF Callback
<1>3. ASSUME NEW s \in Shows, Pool(s) PROVE WaitInv' /\ DeletedInv'
  BY <1>3, WaitOwnSteps, WaitPlay, WaitStart DEF Pool
<1>4. ASSUME NEW s \in Shows, Run(s) PROVE WaitInv' /\ DeletedInv'
  BY <1>4, WaitOwnSteps
<1>5. CASE UNCHANGED vars
  BY <1>5, WaitNone DEF vars
<1> QED
  BY <1>1, <1>2, <1>3, <1>4, <1>5 DEF Next

-----------------------------------------------------------------------------
(* A stop is not lost.                                                       *)

StopInv ==
  \A s \in 1 .. player :
    show[s].stopped /\ show[s].at \in Working =>
      \/ show[s].interrupted \/ s \in swallowed
      \/ s = player /\ doing.step = "interrupt"

\* A step that neither stops a show nor ends an interruption: a thread stays where
\* it is, or begins.
LEMMA StopSame ==
  ASSUME StopInv, UNCHANGED player, swallowed' = swallowed,
         doing.step = "interrupt" => doing'.step = "interrupt",
         \A t \in 1 .. player :
           /\ show'[t].stopped = show[t].stopped /\ show'[t].interrupted = show[t].interrupted
           /\ show'[t].at = show[t].at \/ show'[t].at \notin Working
  PROVE  StopInv'
  BY DEF StopInv

LEMMA StopOwnSteps ==
  ASSUME IInv, StopInv, NEW s \in Shows,
         Run(s) \/ PreviewFails(s) \/ Generate(s) \/ Store(s) \/ Complete(s)
  PROVE  StopInv'
<1>1. PICK q : OwnChange(s, q)
  BY OwnStepsChange
<1>2. /\ s \in 1 .. player /\ UNCHANGED <<player, doing>> /\ swallowed \subseteq swallowed'
  BY OwnStepsFrame
<1>3. show'[s] = q /\ \A t \in 1 .. player : t # s => show'[t] = show[t]
  BY <1>1, <1>2, ChangeShow DEF OwnChange, Keeps, IInv
<1>4. ASSUME NEW t \in 1 .. player, show'[t].stopped, show'[t].at \in Working
      PROVE  \/ show'[t].interrupted \/ t \in swallowed'
             \/ t = player /\ doing.step = "interrupt"
  <2>1. CASE t = s
    BY <1>1, <1>2, <1>3, <1>4, <2>1 DEF OwnChange, Obeys, StopInv
  <2>2. CASE t # s
    BY <1>2, <1>3, <1>4, <2>2 DEF StopInv
  <2> QED
    BY <2>1, <2>2
<1> QED
  BY <1>2, <1>4 DEF StopInv

LEMMA StopPlays ==
  ASSUME IInv, StopInv, NEW s \in Shows, PlayPlayer(s) \/ StartThread(s)
  PROVE  StopInv'
<1>1. UNCHANGED <<player, doing>> /\ swallowed' = swallowed
  BY DEF PlayPlayer, StartThread, history
<1>2. ASSUME NEW t \in 1 .. player
      PROVE  /\ show'[t].stopped = show[t].stopped /\ show'[t].interrupted = show[t].interrupted
             /\ show'[t].at = show[t].at \/ show'[t].at \notin Working
  BY PlayPlayerIs, StartThreadIs DEF Alike, Working
<1> QED
  BY <1>1, <1>2, StopSame

\* The interruption follows the flag, ...
LEMMA StopSetStopped ==
  ASSUME IInv, StopInv, SetStopped
  PROVE  StopInv'
<1>1. player # 0 /\ doing \in Steps
  BY DEF IInv, CallbackInv, DataOK, SetStopped
<1>2. show \in [1 .. player -> ShowRecord]
  BY <1>1, PlayersShow
<1>3. UNCHANGED player /\ swallowed' = swallowed /\ doing'.step = "interrupt"
  BY <1>1 DEF SetStopped, history, Steps
<1>4. \A t \in 1 .. player : t # player => show'[t] = show[t]
  BY <1>2 DEF SetStopped
<1> QED
  BY <1>3, <1>4 DEF StopInv, SetStopped

\* ... and reaches every thread that is in its loop.
LEMMA StopInterrupt ==
  ASSUME IInv, StopInv, Interrupt
  PROVE  StopInv'
<1> DEFINE q == [show[player] EXCEPT !.interrupted = (show[player].at \notin {"new", "ended"})]
<1>1. player # 0
  BY DEF IInv, CallbackInv, Interrupt
<1>2. show \in [1 .. player -> ShowRecord] /\ show[player] \in ShowRecord
      /\ player \in 1 .. player
  BY <1>1, PlayersShow
<1>3. UNCHANGED player /\ swallowed' = swallowed
  BY DEF Interrupt, history
<1>4. show' = [show EXCEPT ![player] = q]
  BY <1>2 DEF Interrupt
<1>5. q.at \in Working => q.interrupted
  BY <1>2 DEF Working, ShowRecord
<1> HIDE DEF q
<1>6. show'[player] = q /\ \A t \in 1 .. player : t # player => show'[t] = show[t]
  BY <1>2, <1>4
<1> QED
  BY <1>3, <1>5, <1>6 DEF StopInv

LEMMA StopReplace ==
  ASSUME IInv, StopInv, Replace
  PROVE  StopInv'
<1>1. /\ player \in Nat /\ player' = player + 1
      /\ show \in Seq(ShowRecord) /\ Len(show) = player
  BY Bounds DEF IInv, DataOK, ShowsOK, Replace
<1> DEFINE n == NewShow(doing.album, doing.last)
<1>2. n.at \notin Working
  BY DEF NewShow, Working
<1>3. show' = Append(show, n)
  BY DEF Replace
<1> HIDE DEF n
<1>4. show'[player'] = n /\ \A t \in 1 .. player : show'[t] = show[t]
  BY <1>1, <1>3
<1>5. swallowed' = swallowed /\ doing.step # "interrupt"
  BY DEF Replace, history
<1>6. ASSUME NEW t \in 1 .. player', t # player' PROVE t \in 1 .. player
  BY <1>1, <1>6
<1> QED
  BY <1>2, <1>4, <1>5, <1>6 DEF StopInv

LEMMA StopDeleteUploads ==
  ASSUME IInv, StopInv, DeleteUploads
  PROVE  StopInv'
<1>1. player \in Nat /\ show \in [1 .. player -> ShowRecord] /\ UNCHANGED player
      /\ swallowed' = swallowed /\ doing.step # "interrupt"
  BY Bounds, ShowsAre DEF IInv, DataOK, DeleteUploads, history
<1>2. ASSUME NEW t \in 1 .. player
      PROVE  /\ show'[t].stopped = show[t].stopped /\ show'[t].interrupted = show[t].interrupted
             /\ show'[t].at = show[t].at
  <2>1. show[t] \in ShowRecord
    BY <1>1
  <2>2. show'[t] = [show[t] EXCEPT !.deleted = @ \/ show[t].album = Uploads]
    BY <1>1 DEF DeleteUploads
  <2> QED
    BY <2>1, <2>2 DEF ShowRecord
<1> QED
  BY <1>1, <1>2, StopSame

\* Other changes of the player's show, for instance its pause.
LEMMA StopCallback ==
  ASSUME IInv, StopInv, player # 0, NEW q, show' = [show EXCEPT ![player] = q],
         UNCHANGED player, swallowed' = swallowed, doing.step # "interrupt",
         q.stopped = show[player].stopped, q.interrupted = show[player].interrupted,
         q.at = show[player].at
  PROVE  StopInv'
<1>1. show \in [1 .. player -> ShowRecord] /\ player \in 1 .. player
  BY PlayersShow
<1>2. show'[player] = q /\ \A t \in 1 .. player : t # player => show'[t] = show[t]
  BY <1>1
<1>3. ASSUME NEW t \in 1 .. player
      PROVE  /\ show'[t].stopped = show[t].stopped /\ show'[t].interrupted = show[t].interrupted
             /\ show'[t].at = show[t].at
  BY <1>2
<1> QED
  BY <1>3, StopSame

LEMMA StopPauseShow ==
  ASSUME IInv, StopInv, player # 0, PauseShow, UNCHANGED player, swallowed' = swallowed,
         doing.step # "interrupt"
  PROVE  StopInv'
<1> DEFINE q == [show[player] EXCEPT !.status = "PAUSED"]
<1>1. show[player] \in ShowRecord /\ show \in [1 .. player -> ShowRecord]
  BY PlayersShow
<1>2. /\ show' = [show EXCEPT ![player] = q] /\ q.stopped = show[player].stopped
      /\ q.interrupted = show[player].interrupted /\ q.at = show[player].at
  BY <1>1 DEF PauseShow, ShowRecord
<1> QED
  BY <1>2, StopCallback

LEMMA StopSetPaused ==
  ASSUME IInv, StopInv, SetPaused
  PROVE  StopInv'
<1> DEFINE q == [show[player] EXCEPT !.paused = TRUE]
<1>1. player # 0
  BY DEF IInv, CallbackInv, SetPaused
<1>2. show[player] \in ShowRecord /\ show \in [1 .. player -> ShowRecord]
  BY <1>1, PlayersShow
<1>3. /\ show' = [show EXCEPT ![player] = q] /\ q.stopped = show[player].stopped
      /\ q.interrupted = show[player].interrupted /\ q.at = show[player].at
  BY <1>2 DEF SetPaused, ShowRecord
<1>4. UNCHANGED player /\ swallowed' = swallowed /\ doing.step # "interrupt"
  BY DEF SetPaused, history
<1> QED
  BY <1>1, <1>3, <1>4, StopCallback

LEMMA StopInitShow ==
  ASSUME IInv, StopInv, InitShow
  PROVE  StopInv'
<1> DEFINE q == [show[player] EXCEPT !.pool = Append(@, show[player].currentIndex)]
<1>1. player # 0
  BY DEF IInv, CallbackInv, InitShow
<1>2. show[player] \in ShowRecord /\ show \in [1 .. player -> ShowRecord]
  BY <1>1, PlayersShow
<1>3. /\ show' = [show EXCEPT ![player] = q] /\ q.stopped = show[player].stopped
      /\ q.interrupted = show[player].interrupted /\ q.at = show[player].at
  BY <1>2 DEF InitShow, ShowRecord
<1>4. UNCHANGED player /\ swallowed' = swallowed /\ doing.step # "interrupt"
  BY DEF InitShow
<1> QED
  BY <1>1, <1>3, <1>4, StopCallback

LEMMA StopRequest ==
  ASSUME IInv, StopInv, Request
  PROVE  StopInv'
<1>1. ASSUME UNCHANGED <<show, player>>, swallowed' = swallowed,
             doing.step = "interrupt" => doing'.step = "interrupt"
      PROVE  StopInv'
  BY <1>1, StopSame
<1>2. ASSUME NEW album \in Album, OnStart(album) PROVE StopInv'
  BY <1>1, <1>2, Callbacks DEF OnStart, history, Receive, IInv
<1>3. CASE OnUpload
  <2>1. /\ player \in Nat /\ show \in [1 .. player -> ShowRecord] /\ UNCHANGED player
        /\ swallowed' = swallowed /\ doing.step = "idle"
    BY <1>3, Bounds, ShowsAre, Callbacks DEF IInv, DataOK, OnUpload, Receive
  <2>2. ASSUME NEW t \in 1 .. player
        PROVE  /\ show'[t].stopped = show[t].stopped
               /\ show'[t].interrupted = show[t].interrupted
               /\ show'[t].at = show[t].at
    <3>1. show[t] \in ShowRecord
      BY <2>1
    <3>2. show'[t] \in {show[t], [show[t] EXCEPT !.size = @ + 1]}
      BY <1>3, <2>1 DEF OnUpload
    <3> QED
      BY <3>1, <3>2 DEF ShowRecord
  <2> QED
    BY <2>1, <2>2, StopSame
<1>4. CASE OnDelete
  BY <1>1, <1>4, Callbacks DEF OnDelete, history, Receive, IInv
<1>5. CASE OnPause \/ OnGeoUpdate
  <2>1. UNCHANGED player /\ swallowed' = swallowed /\ doing.step = "idle"
    BY <1>5, Callbacks DEF OnPause, OnGeoUpdate, history, Receive, IInv
  <2>2. (player # 0 /\ PauseShow) \/ UNCHANGED show
    BY <1>5 DEF OnPause, OnGeoUpdate, HandleStateUpdate
  <2> QED
    BY <1>1, <2>1, <2>2, StopPauseShow
<1>6. CASE OnInfoRequest
  BY <1>1, <1>6 DEF OnInfoRequest, vars, history
<1> QED
  BY <1>2, <1>3, <1>4, <1>5, <1>6 DEF Request

LEMMA StopInductive == IInv /\ StopInv /\ [Next]_vars => StopInv'
<1> SUFFICES ASSUME IInv, StopInv, [Next]_vars PROVE StopInv'
  OBVIOUS
<1>1. CASE Request
  BY <1>1, StopRequest
<1>2. CASE Callback
  BY <1>2, StopSetStopped, StopInterrupt, StopReplace, StopDeleteUploads, StopInitShow,
     StopSetPaused DEF Callback
<1>3. ASSUME NEW s \in Shows, Pool(s) PROVE StopInv'
  BY <1>3, StopOwnSteps, StopPlays DEF Pool
<1>4. ASSUME NEW s \in Shows, Run(s) PROVE StopInv'
  BY <1>4, StopOwnSteps
<1>5. CASE UNCHANGED vars
  BY <1>5, StopSame DEF vars
<1> QED
  BY <1>1, <1>2, <1>3, <1>4, <1>5 DEF Next

-----------------------------------------------------------------------------
(* The theorems.                                                             *)

LEMMA InitInv == Init => IInv
<1> SUFFICES ASSUME Init PROVE IInv
  OBVIOUS
<1>1. Idle \in Steps /\ Idle.step = "idle"
  BY AlbumAssumption DEF Idle, At, Steps
<1>2. DataOK
  BY <1>1, AlbumAssumption DEF Init, DataOK, Modes
<1>3. ShowsOK
  BY DEF Init, ShowsOK
<1>4. CallbackInv
  BY <1>1 DEF Init, CallbackInv
<1>5. ShowsInv
  BY DEF Init, ShowsInv
<1> QED
  BY <1>2, <1>3, <1>4, <1>5 DEF IInv

LEMMA Unchanged == IInv /\ UNCHANGED vars => IInv'
<1> SUFFICES ASSUME IInv, UNCHANGED vars PROVE IInv'
  OBVIOUS
<1>1. ShowsOK' /\ ShowsInv'
  BY ShowsUnchanged DEF vars
<1>2. DataOK' /\ CallbackInv'
  BY DEF IInv, DataOK, CallbackInv, vars
<1> QED
  BY <1>1, <1>2 DEF IInv

LEMMA Inductive == IInv /\ [Next]_vars => IInv'
<1> SUFFICES ASSUME IInv, [Next]_vars PROVE IInv'
  OBVIOUS
<1>1. CASE Request
  <2>1. ASSUME NEW album \in Album, OnStart(album) PROVE IInv'
    BY <2>1, OnStartKeepsInv
  <2>2. CASE OnInfoRequest
    BY <2>2, Unchanged DEF OnInfoRequest
  <2> QED
    BY <1>1, <2>1, <2>2, OnUploadKeepsInv, OnDeleteKeepsInv, OnPauseKeepsInv,
       OnGeoUpdateKeepsInv DEF Request
<1>2. CASE Callback
  BY <1>2, SetStoppedKeepsInv, InterruptKeepsInv, ReplaceKeepsInv, DeleteUploadsKeepsInv,
     InitShowKeepsInv, SetPausedKeepsInv DEF Callback
<1>3. ASSUME NEW s \in Shows, Pool(s) PROVE IInv'
  BY <1>3, OwnStepsKeepInv, PlayPlayerKeepsInv, StartThreadKeepsInv DEF Pool
<1>4. ASSUME NEW s \in Shows, Run(s) PROVE IInv'
  BY <1>4, OwnStepsKeepInv
<1>5. CASE UNCHANGED vars
  BY <1>5, Unchanged
<1> QED
  BY <1>1, <1>2, <1>3, <1>4, <1>5 DEF Next

LEMMA Invariance == Spec => []IInv
  BY InitInv, Inductive, PTL DEF Spec

\* Every show has its fields in range and the player is the newest of them.
THEOREM TypeCorrect == Spec => []TypeOK
<1>1. IInv => TypeOK
  BY DEF IInv, DataOK, ShowsOK, TypeOK
<1> QED
  BY <1>1, Invariance, PTL

\* While a photo is shown it is the one whose number the subscribers are told,
\* and the one that waits is its successor, unless the show is astray or stopped.
THEOREM PictureIsTheNumbered == Spec => []PictureMatchesNumber
<1>1. ASSUME IInv PROVE PictureMatchesNumber
  <2> SUFFICES ASSUME NEW s \in DOMAIN show,
                      s \notin astray, ~show[s].stopped, show[s].at = "show"
               PROVE  /\ show[s].screen = show[s].currentIndex
                      /\ show[s].nextImage \in {None, NextIndex(show[s])}
    BY DEF PictureMatchesNumber
  <2>1. Handshake(show[s])
    BY <1>1, ShowOf
  <2> QED
    BY <2>1 DEF Handshake
<1> QED
  BY <1>1, Invariance, PTL

\* A show of two photos or more that waits for its next photo has it coming: the
\* request made in repaint is not lost, whatever else is asked of the pool.
THEOREM TheNextPhotoIsComing == Spec => []NextIsComing
<1>1. Init => WaitInv /\ DeletedInv
  BY DEF Init, WaitInv, DeletedInv
<1>2. IInv /\ WaitInv => NextIsComing
  <2> SUFFICES ASSUME IInv, WaitInv, NEW s \in DOMAIN show,
                      show[s].at = "show", show[s].nextImage = None, show[s].size > 1,
                      s \notin astray, ~show[s].stopped, faults = 0
               PROVE  Coming(show[s])
    BY DEF NextIsComing
  <2>1. s \in 1 .. player
    BY ShowOf
  <2> QED
    BY <2>1 DEF WaitInv, GoesOn
<1> QED
  BY <1>1, <1>2, Invariance, WaitInductive, PTL DEF Spec
\* A thread that is to stop has its interruption before it wherever it is in its
\* loop, or stop is still at it, or repaint has logged it.
THEOREM AStopIsNotLost == Spec => []StopIsNotLost
<1>1. Init => StopInv
  BY DEF Init, StopInv
<1>2. IInv /\ StopInv => StopIsNotLost
  <2> SUFFICES ASSUME IInv, StopInv, NEW s \in DOMAIN show,
                      show[s].stopped, show[s].at \in Working
               PROVE  \/ show[s].interrupted \/ s \in swallowed
                      \/ s = player /\ doing.step = "interrupt"
    BY DEF StopIsNotLost
  <2>1. s \in 1 .. player
    BY ShowOf
  <2> QED
    BY <2>1 DEF StopInv
<1> QED
  BY <1>1, <1>2, Invariance, StopInductive, PTL DEF Spec
=============================================================================
