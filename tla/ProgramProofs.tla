--------------------------- MODULE ProgramProofs ---------------------------
(***************************************************************************)
(* Proofs about parts of the program of one player: the ring of frames     *)
(* (InputBuffer), for every size of the ring, every set of frames and      *)
(* every bound, with its implementation of FrameQueue; the music (Music),  *)
(* for every set of tracks and every number of requests; the library of    *)
(* levels (Library), for all files, contents, sums and changes; what is    *)
(* seen on the screen (Views), for all games and numbers of players; and   *)
(* the bitmaps in memory (Resources), for all places, tiles and bounds.    *)
(***************************************************************************)
EXTENDS MCProgram, TLAPS, FiniteSetTheorems, NaturalsInduction, WellFoundedInduction

USE BufferAssumption DEF Cells

-----------------------------------------------------------------------------
(* Arithmetic of the ring.                                                  *)

\* One step forward stays in the ring and leaves one step back where it was.
LEMMA AfterInRing ==
  ASSUME NEW w \in Cells
  PROVE  /\ After(w) \in Cells
         /\ \/ After(w) = w + 1
            \/ After(w) = 1 /\ w = Max
  BY DEF After

\* A distance in the ring that is a multiple of its size is 0 or one size.
LEMMA FewLaps ==
  ASSUME NEW q \in Int, q * Max > -Max, q * Max < 2 * Max
  PROVE  q = 0 \/ q = 1
<1>1. CASE q <= -1
  <2>1. q * Max <= -1 * Max
    BY <1>1
  <2> QED BY <2>1
<1>2. CASE q >= 2
  <2>1. q * Max >= 2 * Max
    BY <1>2
  <2> QED BY <2>1
<1> QED BY <1>1, <1>2

\* Laps are never negative, and no more than the frames that wait.
LEMMA LapsBounded ==
  ASSUME NEW q \in Int, NEW r \in Cells, NEW w \in Cells, NEW n \in Nat,
         n = w - r + q * Max
  PROVE  q \in 0 .. n
<1>1. q * Max > -Max
  OBVIOUS
<1>2. q >= 0
  <2> SUFFICES ASSUME q <= -1 PROVE FALSE
    OBVIOUS
  <2>1. q * Max <= -1 * Max
    OBVIOUS
  <2> QED BY <1>1, <2>1
<1>3. q <= n
  <2> SUFFICES ASSUME q >= n + 1 PROVE FALSE
    OBVIOUS
  <2>1. q * Max >= (n + 1) * Max
    OBVIOUS
  <2>2. (n + 1) * Max = n * Max + Max
    OBVIOUS
  <2>3. n * Max >= n
    OBVIOUS
  <2>4. q * Max >= n + Max
    BY <2>1, <2>2, <2>3
  <2> QED BY <2>4
<1> QED BY <1>2, <1>3

-----------------------------------------------------------------------------
(* The inductive invariant: types, the frames kept, the distance between    *)
(* writer and reader, and the cell of the last frame.                       *)

LastKept == /\ filled_frames => previous_write_pos = Back(1)
            /\ frames > 0 => filled_frames

Inv == /\ TypeOK
       /\ frames <= MaxPending
       /\ NewestKept
       /\ InStep
       /\ LastKept

LEMMA InitInv == Init => Inv
<1> SUFFICES ASSUME Init PROVE Inv
  OBVIOUS
<1>1. TypeOK
  <2>1. 1 \in Cells
    OBVIOUS
  <2>2. <<>> \in Seq(Frames)
    OBVIOUS
  <2> QED BY <2>1, <2>2 DEF Init, TypeOK
<1>2. NewestKept
  BY DEF Init, NewestKept
<1>3. InStep
  <2>1. frames = write_pos - read_pos + 0 * Max
    BY DEF Init
  <2> QED BY <2>1 DEF InStep
<1> QED BY <1>1, <1>2, <1>3 DEF Init, Inv, LastKept

\* A frame goes into the ring.
LEMMA PutKeepsInv ==
  ASSUME Inv, NEW f \in Frames, PutFrame(f)
  PROVE  /\ Inv'
         /\ data'[previous_write_pos'] = f
<1> USE DEF Inv, TypeOK
<1>1. /\ After(write_pos) \in Cells
      /\ \/ After(write_pos) = write_pos + 1
         \/ After(write_pos) = 1 /\ write_pos = Max
  BY AfterInRing
<1>2. TypeOK' /\ frames' <= MaxPending
  BY <1>1 DEF PutFrame
<1>3. Back(1)' = write_pos
  <2>1. write_pos \in 1 .. Max /\ write_pos' = After(write_pos)
    BY DEF PutFrame
  <2>2. CASE write_pos' = write_pos + 1
    BY <2>1, <2>2 DEF Back
  <2>3. CASE write_pos' = 1 /\ write_pos = Max
    BY <2>1, <2>3 DEF Back
  <2> QED BY <1>1, <2>1, <2>2, <2>3
<1>4. \A j \in 2 .. Max : Back(j)' = Back(j - 1) /\ Back(j - 1) # write_pos
  BY <1>1 DEF PutFrame, Back
<1>5. frames' = Len(pending') /\ pending'[frames'] = f
  BY DEF PutFrame, NewestKept
<1>6. NewestKept'
  <2> SUFFICES ASSUME NEW j \in 1 .. Max, j <= frames'
               PROVE  data'[Back(j)'] = pending'[frames' + 1 - j]
    BY <1>5 DEF NewestKept
  <2>1. CASE j = 1
    BY <2>1, <1>3, <1>5 DEF PutFrame
  <2>2. CASE j # 1
    <3>1. j - 1 \in 1 .. Max /\ j - 1 <= frames /\ j \in 2 .. Max
      BY <2>2 DEF PutFrame
    <3>2. data[Back(j - 1)] = pending[frames + 1 - (j - 1)]
      BY <3>1 DEF NewestKept
    <3>3. data'[Back(j)'] = data[Back(j - 1)]
      BY <3>1, <1>4 DEF PutFrame, Back
    <3>4. pending'[frames' + 1 - j] = pending[frames + 1 - (j - 1)]
      <4>1. frames + 2 - j \in 1 .. Len(pending)
        BY <3>1 DEF NewestKept
      <4>2. pending' = Append(pending, f) /\ frames' = frames + 1
        BY DEF PutFrame
      <4>3. Append(pending, f)[frames + 2 - j] = pending[frames + 2 - j]
        BY <4>1
      <4>4. frames' + 1 - j = frames + 2 - j /\ frames + 1 - (j - 1) = frames + 2 - j
        BY <4>2
      <4> QED BY <4>2, <4>3, <4>4
    <3> QED BY <3>2, <3>3, <3>4
  <2> QED BY <2>1, <2>2
<1>7. InStep'
  <2>1. PICK q \in 0 .. MaxPending : frames = write_pos - read_pos + q * Max
    BY DEF InStep
  <2>2. CASE After(write_pos) = write_pos + 1
    <3>1. frames' = write_pos' - read_pos' + q * Max
      BY <2>1, <2>2 DEF PutFrame
    <3> QED BY <3>1 DEF InStep, PutFrame
  <2>3. CASE After(write_pos) = 1 /\ write_pos = Max
    <3>1. frames' = write_pos' - read_pos' + (q + 1) * Max
      BY <2>1, <2>3 DEF PutFrame
    <3>2. q + 1 \in 0 .. frames'
      <4>1. q + 1 \in Int /\ write_pos' \in Cells /\ read_pos' \in Cells /\ frames' \in Nat
        BY <1>2
      <4> QED BY <4>1, <3>1, LapsBounded
    <3>3. q + 1 \in 0 .. MaxPending
      BY <3>2, <1>2
    <3> QED BY <3>1, <3>3 DEF InStep, PutFrame
  <2> QED BY <2>2, <2>3, <1>1
<1>8. LastKept'
  BY <1>3 DEF LastKept, PutFrame
<1>9. data'[previous_write_pos'] = f
  BY DEF PutFrame
<1> QED BY <1>2, <1>6, <1>7, <1>8, <1>9

\* A frame comes out of the ring.
LEMMA ReadKeepsInv ==
  ASSUME Inv, Read
  PROVE  Inv'
<1> USE DEF Inv, TypeOK
<1>1. /\ After(read_pos) \in Cells
      /\ \/ After(read_pos) = read_pos + 1
         \/ After(read_pos) = 1 /\ read_pos = Max
  BY AfterInRing
<1>2. TypeOK' /\ frames' <= MaxPending
  BY <1>1 DEF Read, NewestKept
<1>3. NewestKept'
  <2>1. frames' = Len(pending')
    BY DEF Read, NewestKept
  <2> SUFFICES ASSUME NEW j \in 1 .. Max, j <= frames'
               PROVE  data'[Back(j)'] = pending'[frames' + 1 - j]
    BY <2>1 DEF NewestKept
  <2>2. data[Back(j)] = pending[frames + 1 - j]
    BY DEF NewestKept, Read
  <2>3. pending'[frames' + 1 - j] = pending[frames + 1 - j]
    BY DEF NewestKept, Read
  <2>4. data'[Back(j)'] = data[Back(j)]
    BY DEF Read, Back
  <2> QED BY <2>2, <2>3, <2>4
<1>4. InStep'
  <2>1. PICK q \in 0 .. MaxPending : frames = write_pos - read_pos + q * Max
    BY DEF InStep
  <2>2. CASE After(read_pos) = read_pos + 1
    <3>1. frames' = write_pos' - read_pos' + q * Max
      BY <2>1, <2>2 DEF Read
    <3> QED BY <3>1 DEF InStep, Read
  <2>3. CASE After(read_pos) = 1 /\ read_pos = Max
    <3>1. frames' = write_pos' - read_pos' + (q - 1) * Max
      BY <2>1, <2>3 DEF Read
    <3>2. q - 1 \in 0 .. frames'
      <4>1. q - 1 \in Int /\ write_pos' \in Cells /\ read_pos' \in Cells /\ frames' \in Nat
        BY <1>2
      <4> QED BY <4>1, <3>1, LapsBounded
    <3>3. q - 1 \in 0 .. MaxPending
      BY <3>2, <1>2
    <3> QED BY <3>1, <3>3 DEF InStep, Read
  <2> QED BY <2>2, <2>3, <1>1
<1>5. LastKept'
  BY DEF LastKept, Read, Back
<1> QED BY <1>2, <1>3, <1>4, <1>5

LEMMA NextInv == Inv /\ [Next]_vars => Inv'
<1> SUFFICES ASSUME Inv, [Next]_vars PROVE Inv'
  OBVIOUS
<1>1. CASE Write
  BY <1>1, PutKeepsInv DEF Write
<1>2. CASE Duplicate
  <2>1. (IF filled_frames THEN data[previous_write_pos] ELSE Blank) \in Frames
    BY DEF Inv, TypeOK
  <2> QED BY <1>2, <2>1, PutKeepsInv DEF Duplicate
<1>3. CASE Read
  BY <1>3, ReadKeepsInv
<1>4. CASE Reset
  <2>1. TypeOK' /\ frames' <= MaxPending /\ NewestKept' /\ LastKept'
    <3>1. <<>> \in Seq(Frames) /\ Len(<<>>) = 0 /\ 1 \in Cells
      OBVIOUS
    <3>2. TypeOK' /\ frames' <= MaxPending
      <4>1. data' = data /\ out' = out /\ data \in [Cells -> Frames] /\ out \in Frames
        BY <1>4 DEF Reset, Inv, TypeOK
      <4>2. data' \in [Cells -> Frames] /\ out' \in Frames
        BY <4>1
      <4>3. pending' \in Seq(Frames)
        BY <1>4, <3>1 DEF Reset
      <4>4. /\ read_pos' \in Cells /\ write_pos' \in Cells /\ previous_write_pos' \in Cells
            /\ frames' \in Nat /\ frames' <= MaxPending
        BY <1>4 DEF Reset
      <4>5. filled_frames' \in BOOLEAN
        BY <1>4 DEF Reset
      <4> QED BY <4>2, <4>3, <4>4, <4>5 DEF TypeOK
    <3>3. NewestKept'
      BY <1>4, <3>1 DEF Reset, NewestKept
    <3>4. LastKept'
      BY <1>4 DEF Reset, LastKept
    <3> QED BY <3>2, <3>3, <3>4
  <2>2. frames' = write_pos' - read_pos' + 0 * Max
    BY <1>4 DEF Reset
  <2>3. InStep'
    BY <2>2 DEF InStep
  <2> QED BY <2>1, <2>3 DEF Inv
<1>5. CASE UNCHANGED vars
  <2>1. TypeOK' /\ frames' <= MaxPending /\ LastKept'
    BY <1>5 DEF vars, Inv, TypeOK, LastKept, Back
  <2>2. NewestKept'
    BY <1>5 DEF vars, Inv, NewestKept, Back
  <2>3. InStep'
    BY <1>5 DEF vars, Inv, InStep
  <2> QED BY <2>1, <2>2, <2>3 DEF Inv
<1> QED BY <1>1, <1>2, <1>3, <1>4, <1>5 DEF Next

LEMMA Invariance == Spec => []Inv
  BY InitInv, NextInv, PTL DEF Spec

(* Positions never leave the data, whatever is written, read and reset.     *)
THEOREM TypeCorrect == Spec => []TypeOK
<1>1. Inv => TypeOK
  BY DEF Inv
<1> QED BY <1>1, Invariance, PTL

(* The newest frames are where the writer's position says.                  *)
THEOREM NewestAlwaysKept == Spec => []NewestKept
<1>1. Inv => NewestKept
  BY DEF Inv
<1> QED BY <1>1, Invariance, PTL

(* Reader and writer stay frames apart, modulo the size of the ring.        *)
THEOREM AlwaysInStep == Spec => []InStep
<1>1. Inv => InStep
  BY DEF Inv
<1> QED BY <1>1, Invariance, PTL

-----------------------------------------------------------------------------
(* InputBuffer implements FrameQueue.                                       *)

\* With at most Max frames waiting, the oldest is where the reader stands;
\* with more, the reader stands on one of the Max newest.
LEMMA ReaderPlace ==
  ASSUME Inv, frames > 0
  PROVE  /\ frames <= Max => read_pos = Back(frames)
         /\ \E j \in 1 .. Max : j <= frames /\ read_pos = Back(j)
<1> USE DEF Inv, TypeOK
<1>1. ASSUME frames <= Max PROVE read_pos = Back(frames)
  <2>1. PICK q \in 0 .. MaxPending : frames = write_pos - read_pos + q * Max
    BY DEF InStep
  <2>2. q * Max > -Max /\ q * Max < 2 * Max
    BY <2>1, <1>1
  <2>3. q = 0 \/ q = 1
    BY <2>2, FewLaps
  <2>4. CASE q = 0
    BY <2>1, <2>4 DEF Back
  <2>5. CASE q = 1
    BY <2>1, <2>5 DEF Back
  <2> QED BY <2>3, <2>4, <2>5
<1>2. CASE frames <= Max
  BY <1>1, <1>2
<1>3. CASE frames > Max
  <2>1. CASE read_pos < write_pos
    <3>1. read_pos = Back(write_pos - read_pos) /\ write_pos - read_pos \in 1 .. Max
      BY <2>1 DEF Back
    <3> QED BY <3>1, <1>3
  <2>2. CASE read_pos >= write_pos
    <3>1. /\ read_pos = Back(write_pos - read_pos + Max)
          /\ write_pos - read_pos + Max \in 1 .. Max
      BY <2>2 DEF Back
    <3> QED BY <3>1, <1>3
  <2> QED BY <2>1, <2>2
<1> QED BY <1>1, <1>2, <1>3

LEMMA StepImplements ==
  ASSUME Inv, [Next]_vars
  PROVE  [Queue!Next]_(Queue!vars)
<1> USE DEF Inv, TypeOK
<1>1. CASE Write
  <2>1. PICK f \in Frames : PutFrame(f)
    BY <1>1 DEF Write
  <2>2. Queue!Put(f)
    BY <2>1, PutKeepsInv DEF PutFrame, Queue!Put
  <2> QED BY <2>2 DEF Queue!Next
<1>2. CASE Duplicate
  <2> DEFINE f == IF filled_frames THEN data[previous_write_pos] ELSE Blank
  <2>1. f \in Frames /\ PutFrame(f)
    BY <1>2 DEF Duplicate
  <2>2. Queue!Put(f)
    BY <2>1, PutKeepsInv DEF PutFrame, Queue!Put
  <2> QED BY <2>2 DEF Queue!Next
<1>3. CASE Read
  <2>1. frames = Len(pending) /\ frames > 0
    BY <1>3 DEF Read, NewestKept
  <2>2. PICK j \in 1 .. Max : j <= frames /\ read_pos = Back(j)
    BY <2>1, ReaderPlace
  <2>3. out' = pending[frames + 1 - j]
    BY <1>3, <2>2 DEF Read, NewestKept
  <2>4. out' \in Queue!Newest
    BY <2>1, <2>2, <2>3 DEF Queue!Newest
  <2>5. ASSUME Len(pending) <= Max PROVE out' = Head(pending)
    <3>1. data[Back(frames)] = pending[1]
      BY <2>1, <2>5 DEF NewestKept
    <3> QED BY <3>1, <2>1, <2>5, <1>3, ReaderPlace DEF Read
  <2>6. Queue!Get
    BY <1>3, <2>1, <2>4, <2>5 DEF Read, Queue!Get
  <2> QED BY <2>6 DEF Queue!Next
<1>4. CASE Reset
  <2>1. Queue!Clear
    BY <1>4 DEF Reset, Queue!Clear
  <2> QED BY <2>1 DEF Queue!Next
<1>5. CASE UNCHANGED vars
  BY <1>5 DEF vars, Queue!vars
<1> QED BY <1>1, <1>2, <1>3, <1>4, <1>5 DEF Next

(* Every behaviour of the ring is one of the queue: nothing is lost, taken  *)
(* twice or out of order while at most Max frames wait.                     *)
THEOREM RingIsQueue == Spec => QueueSpec
<1>1. Init => Queue!Init
  BY DEF Init, Queue!Init
<1>2. Inv /\ [Next]_vars => [Queue!Next]_(Queue!vars)
  BY StepImplements
<1> QED BY <1>1, <1>2, Invariance, PTL DEF Spec, QueueSpec, Queue!Spec

-----------------------------------------------------------------------------
(***************************************************************************)
(* Music.  Until a stop or a halt comes while a track is being loaded, the *)
(* mixer holds at most the stream that plays or the one that is stopped,   *)
(* and what is loaded is what was asked for.                               *)
(***************************************************************************)
HIDE BufferAssumption DEF Cells

MusicTypes ==
  /\ stream \in Nat /\ stopping \in Nat
  /\ thread \in [at : {"done", "begin", "load", "attach"}, track : Tracks \cup {M!Silence},
                 locked : BOOLEAN]
  /\ program \in [at : {"idle", "stopping"}, playing : BOOLEAN, halted : BOOLEAN,
                  plays : 0 .. MaxPlays]
  /\ sound \in [on : SUBSET Nat, track : [1 .. MaxPlays -> Tracks \cup {M!Silence}],
                paused : SUBSET Nat]
  /\ wish \in [track : Tracks \cup {M!Silence}, early : BOOLEAN]

\* What sounds is what was asked for, and it is paused while the display is away.
Heard ==
  \/ stream = 0 /\ sound.on = {} /\ sound.paused = {} /\ wish.track \in Missing \cup {M!Silence}
  \/ /\ stream \in 1 .. program.plays /\ sound.on = {stream}
     /\ sound.track[stream] = wish.track /\ wish.track \in Tracks \ Missing
     /\ sound.paused = IF program.halted THEN {stream} ELSE {}

\* What the thread still has to do: what it stops is all that sounds, and the
\* stream it loads is of the track that was asked for.
Timely ==
  /\ thread.at # "done" =>
       /\ program.at = "idle" /\ ~ program.halted /\ program.plays > 0
       /\ wish.track = thread.track /\ thread.track \in Tracks /\ sound.paused = {}
  /\ thread.at = "begin" => stream = 0 /\ sound.on \subseteq {stopping}
  /\ thread.at = "load" => stream = 0 /\ stopping = 0 /\ sound.on = {}
  /\ thread.at = "attach" =>
       /\ stream = program.plays /\ stopping = 0 /\ sound.on = {}
       /\ sound.track[program.plays] = thread.track /\ thread.track \notin Missing
  /\ thread.at = "done" /\ program.at = "idle" => stopping = 0 /\ Heard
  /\ program.at = "stopping" =>
       /\ stream = 0 /\ sound.on \subseteq {stopping} /\ sound.paused = {}
       /\ wish.track = M!Silence /\ ~ program.halted

\* Once a stop or a halt came too early nothing is claimed but the types.
MusicInv == MusicTypes /\ (~ wish.early => Timely)

LEMMA MusicInit == M!Init => MusicInv
BY MusicAssumption DEF M!Init, MusicInv, MusicTypes, Timely, Heard

LEMMA MusicHeard == MusicInv => M!HeardAsAsked
<1> SUFFICES ASSUME MusicInv, thread.at = "done", program.at = "idle", ~ wish.early
             PROVE  {sound.track[n] : n \in sound.on \ sound.paused}
                      = IF program.halted \/ wish.track \in Missing \cup {M!Silence} THEN {} ELSE {wish.track}
  BY DEF M!HeardAsAsked, M!Loading
<1>1. Heard BY DEF MusicInv, Timely
<1>2. wish.track \in Tracks => wish.track # M!Silence BY MusicAssumption
<1> QED BY <1>1, <1>2 DEF Heard

\* One step per action of the program and of the thread.
LEMMA MusicStep == MusicInv /\ M!Next => MusicInv'
<1> SUFFICES ASSUME MusicInv, M!Next PROVE MusicInv'
  OBVIOUS
<1> USE MusicAssumption DEF MusicInv
<1>1. ASSUME NEW track \in Tracks, M!Play(track) PROVE MusicInv'
  <2>1. MusicTypes'
    <3>1. /\ stopping' \in Nat /\ stream' \in Nat /\ sound' = sound
          /\ thread' \in [at : {"done", "begin", "load", "attach"}, track : Tracks \cup {M!Silence},
                          locked : BOOLEAN]
      BY <1>1 DEF M!Play, M!Outgoing, MusicTypes
    <3>2. program.plays + 1 \in 0 .. MaxPlays BY <1>1 DEF M!Play, MusicTypes
    <3>3. PICK n : n = program.plays + 1 OBVIOUS
    <3>4. program' = [program EXCEPT !.playing = TRUE, !.plays = n] BY <1>1, <3>3 DEF M!Play
    <3>5. program' \in [at : {"idle", "stopping"}, playing : BOOLEAN, halted : BOOLEAN,
                        plays : 0 .. MaxPlays]
      BY <3>2, <3>3, <3>4 DEF MusicTypes
    <3>6. wish' \in [track : Tracks \cup {M!Silence}, early : BOOLEAN]
      BY <1>1 DEF M!Play, MusicTypes
    <3> QED BY <3>1, <3>5, <3>6 DEF MusicTypes
  <2>2. ~ wish'.early => Timely'
    BY <1>1 DEF M!Play, M!Free, M!Loading, M!Outgoing, MusicTypes, Timely, Heard
  <2> QED BY <2>1, <2>2
<1>2. CASE M!Stop
  <2>1. MusicTypes' BY <1>2 DEF M!Stop, M!Free, M!Loading, MusicTypes
  <2>2. ~ wish'.early => Timely'
    BY <1>2 DEF M!Stop, M!Free, M!Loading, MusicTypes, Timely, Heard
  <2> QED BY <2>1, <2>2
<1>3. CASE M!FinishStop
  <2>1. MusicTypes' BY <1>3 DEF M!FinishStop, M!Without, MusicTypes
  <2>2. ~ wish'.early => Timely'
    BY <1>3 DEF M!FinishStop, M!Without, MusicTypes, Timely, Heard
  <2> QED BY <2>1, <2>2
<1>4. CASE M!Halt
  <2>1. MusicTypes' BY <1>4 DEF M!Halt, M!Free, M!Loading, MusicTypes
  <2>2. ~ wish'.early => Timely'
    <3>1. SUFFICES ASSUME ~ wish'.early PROVE Timely'
      OBVIOUS
    <3>2. ~ wish.early /\ thread.at = "done" /\ wish'.track = wish.track
      BY <1>4, <3>1 DEF M!Halt, M!Free, M!Loading, MusicTypes
    <3>3. PICK so, pr : so = sound' /\ pr = program' OBVIOUS
    <3>4. /\ pr.at = "idle" /\ pr.halted /\ pr.plays = program.plays /\ program.at = "idle" /\ ~ program.halted
      BY <1>4, <3>3 DEF M!Halt, M!Free, MusicTypes
    <3>5. /\ so.on = sound.on /\ so.track = sound.track
          /\ so.paused = IF stream # 0 THEN sound.paused \cup {stream} ELSE sound.paused
      BY <1>4, <3>3 DEF M!Halt, MusicTypes
    <3>6. UNCHANGED <<stream, stopping, thread>> BY <1>4 DEF M!Halt
    <3>7. stopping = 0 /\ Heard BY <3>2, <3>4 DEF Timely
    <3>8. Heard' BY <3>2, <3>3, <3>4, <3>5, <3>6, <3>7 DEF Heard, MusicTypes
    <3> QED BY <3>2, <3>3, <3>4, <3>6, <3>7, <3>8 DEF Timely
  <2> QED BY <2>1, <2>2
<1>5. CASE M!Resume
  <2>1. MusicTypes' BY <1>5 DEF M!Resume, MusicTypes
  <2>2. ~ wish'.early => Timely'
    BY <1>5 DEF M!Resume, MusicTypes, Timely, Heard
  <2> QED BY <2>1, <2>2
<1>6. CASE M!Begin
  <2>1. MusicTypes' BY <1>6 DEF M!Begin, M!Without, MusicTypes
  <2>2. ~ wish'.early => Timely'
    BY <1>6 DEF M!Begin, M!Without, MusicTypes, Timely, Heard
  <2> QED BY <2>1, <2>2
<1>7. CASE M!LoadTrack
  <2>1. CASE thread.track \in Missing
    <3>0. stream' = 0 /\ thread' = [thread EXCEPT !.at = "done", !.locked = FALSE] /\ sound' = sound
          /\ UNCHANGED <<stopping, program, wish>>
      BY <1>7, <2>1 DEF M!LoadTrack
    <3>3. PICK th : th = thread' OBVIOUS
    <3>4. th \in [at : {"done", "begin", "load", "attach"}, track : Tracks \cup {M!Silence},
                  locked : BOOLEAN]
      BY <3>0, <3>3 DEF MusicTypes
    <3>1. MusicTypes' BY <3>0, <3>3, <3>4 DEF MusicTypes
    <3>2. ~ wish'.early => Timely'
      BY <1>7, <2>1, ZenonT(40) DEF M!LoadTrack, MusicTypes, Timely, Heard
    <3> QED BY <3>1, <3>2
  <2>2. CASE thread.track \notin Missing
    <3> DEFINE n == program.plays
               t == [sound.track EXCEPT ![n] = thread.track]
    <3>1. /\ stream' = n /\ thread.at = "load" /\ UNCHANGED <<stopping, program, wish>>
          /\ thread' = [thread EXCEPT !.at = "attach"] /\ sound' = [sound EXCEPT !.track = t]
      BY <1>7, <2>2 DEF M!LoadTrack
    <3>2. t \in [1 .. MaxPlays -> Tracks \cup {M!Silence}] /\ n \in 0 .. MaxPlays
      BY DEF MusicTypes
    <3>3. n > 0 => t[n] = thread.track BY <3>2 DEF MusicTypes
    <3>4. PICK so : so = sound' OBVIOUS
    <3> HIDE DEF t
    <3>5. /\ so \in [on : SUBSET Nat, track : [1 .. MaxPlays -> Tracks \cup {M!Silence}], paused : SUBSET Nat]
          /\ so.track = t /\ so.on = sound.on /\ so.paused = sound.paused
      BY <3>1, <3>2, <3>4 DEF MusicTypes
    <3>6. MusicTypes' BY <3>1, <3>2, <3>4, <3>5 DEF MusicTypes
    <3>7. ~ wish.early => Timely'
      <4>1. thread'.at = "attach" /\ thread'.track = thread.track BY <3>1 DEF MusicTypes
      <4> HIDE DEF n
      <4> QED BY <2>2, <3>1, <3>3, <3>4, <3>5, <4>1 DEF Timely, n
    <3> QED BY <3>1, <3>6, <3>7
  <2> QED BY <2>1, <2>2
<1>8. CASE M!Attach
  <2>1. MusicTypes' BY <1>8 DEF M!Attach, MusicTypes
  <2>2. ~ wish'.early => Timely'
    BY <1>8 DEF M!Attach, MusicTypes, Timely, Heard
  <2> QED BY <2>1, <2>2
<1> QED BY <1>1, <1>2, <1>3, <1>4, <1>5, <1>6, <1>7, <1>8 DEF M!Next

(* pp2_play_music, pp2_stop_music and the thread that loads: whatever is    *)
(* asked for and however the two interleave, once a track is loaded what    *)
(* the mixer lets sound is what was asked for last, and nothing sounds      *)
(* while the display is away - unless a stop or a halt overtook a load.     *)
THEOREM MusicAsAsked == MCSpec => []HeardAsAsked
<1>1. MCInit => MusicInv BY MusicInit DEF MCInit
<1>2. MusicInv /\ [MCNext]_allVars => MusicInv'
  <2> SUFFICES ASSUME MusicInv, [MCNext]_allVars PROVE MusicInv'
    OBVIOUS
  <2>1. M!Next \/ UNCHANGED musicVars
    BY DEF MCNext, Only, allVars
  <2>2. UNCHANGED musicVars => MusicInv'
    BY DEF musicVars, MusicInv, MusicTypes, Timely, Heard
  <2> QED BY <2>1, <2>2, MusicStep
<1>3. MusicInv => HeardAsAsked BY MusicHeard DEF HeardAsAsked
<1> QED BY <1>1, <1>2, <1>3, PTL DEF MCSpec

-----------------------------------------------------------------------------
(* Recursion over the subsets of a finite set, with sets and functions for  *)
(* parameters.                                                              *)

LEMMA LeastIn ==
  ASSUME NEW S \in SUBSET Nat, S # {}
  PROVE  \E p \in S : \A q \in S : p <= q
<1> DEFINE less == {pair \in Nat \X Nat : pair[1] < pair[2]}
<1>1. IsWellFoundedOn(less, Nat)
  BY NatLessThanWellFounded DEF OpToRel
<1>2. \A p, q \in S : ~(<<q, p>> \in less) => p <= q
  OBVIOUS
<1> HIDE DEF less
<1>3. \E p \in S : \A q \in S : ~(<<q, p>> \in less)
  BY <1>1, WFMin
<1> QED BY <1>2, <1>3

LEMMA GreatestIn ==
  ASSUME NEW n \in Nat, NEW T \in SUBSET (1 .. n), T # {}
  PROVE  \E p \in T : \A q \in T : p >= q
<1> DEFINE S == {m \in 0 .. n : n - m \in T}
<1>1. S \in SUBSET Nat /\ S # {}
  <2>1. PICK t \in T : TRUE OBVIOUS
  <2>2. PICK u \in 0 .. n : n - u = t
    <3>1. n - t \in 0 .. n /\ n - (n - t) = t BY <2>1
    <3> QED BY <3>1
  <2>3. u \in S BY <2>1, <2>2
  <2> QED BY <2>3
<1>2. \E p \in S : \A q \in S : p <= q
  <2> HIDE DEF S
  <2> QED BY ONLY <1>1, LeastIn
<1>3. PICK m \in S : \A q \in S : m <= q BY <1>2
<1>4. ASSUME NEW q \in T PROVE n - m >= q
  <2>1. n - q \in S BY <1>4
  <2>2. m <= n - q /\ m \in Nat /\ q \in Nat BY <1>3, <2>1
  <2> QED BY <2>2
<1> QED BY <1>3, <1>4

LEMMA SetInduction ==
  ASSUME NEW S, 0 \in S, \A n \in Nat : n \in S => n + 1 \in S
  PROVE  Nat \subseteq S
<1> SUFFICES ASSUME ~ (Nat \subseteq S) PROVE FALSE
  OBVIOUS
<1> DEFINE T == Nat \ S
<1>1. PICK m \in T : \A n \in T : m <= n
  <2> HIDE DEF T
  <2>1. T \in SUBSET Nat /\ T # {} BY DEF T
  <2> QED BY ONLY <2>1, LeastIn
<1>2. m # 0 BY <1>1
<1>3. m - 1 \in Nat /\ m - 1 \notin T BY <1>1, <1>2
<1> QED BY <1>1, <1>3

\* g is made from b, one element of the set after the other, by G.
Made(g, S, X, b, c, G) ==
  /\ g \in [SUBSET S -> X] /\ g[{}] = b
  /\ \A T \in SUBSET S : T # {} => g[T] = G[<<T, g[T \ {c[T]}]>>]

LEMMA MadeExists ==
  ASSUME NEW S, IsFiniteSet(S), NEW X, NEW b \in X,
         NEW c, \A T \in SUBSET S : T # {} => c[T] \in T,
         NEW G \in [(SUBSET S) \X X -> X]
  PROVE  \E g : Made(g, S, X, b, c, G)
<1> DEFINE D(n) == {T \in SUBSET S : Cardinality(T) <= n}
           Upto(n, g) == /\ g \in [D(n) -> X] /\ g[{}] = b
                         /\ \A T \in D(n) : T # {} => g[T] = G[<<T, g[T \ {c[T]}]>>]
           N == {n \in Nat : \E g : Upto(n, g)}
<1>1. \A T \in SUBSET S : IsFiniteSet(T) /\ Cardinality(T) \in Nat
  BY FS_Subset, FS_CardinalityType
<1>2. Cardinality({}) = 0 /\ \A T \in SUBSET S : Cardinality(T) = 0 => T = {}
  BY <1>1, FS_EmptySet
<1>3. 0 \in N
  <2> DEFINE g == [T \in D(0) |-> b]
  <2>1. \A T \in D(0) : T = {} BY <1>1, <1>2
  <2>2. {} \in D(0) BY <1>2
  <2>3. Upto(0, g) BY <2>1, <2>2
  <2> QED BY <2>3
<1>4. \A n \in Nat : n \in N => n + 1 \in N
  <2> SUFFICES ASSUME NEW n \in Nat, n \in N PROVE n + 1 \in N
    OBVIOUS
  <2>0. PICK g : Upto(n, g) OBVIOUS
  <2> DEFINE h == [T \in D(n + 1) |-> IF T = {} THEN b ELSE G[<<T, g[T \ {c[T]}]>>]]
  <2>1. \A T \in D(n + 1) : T # {} => T \ {c[T]} \in D(n)
    <3> SUFFICES ASSUME NEW T \in D(n + 1), T # {} PROVE T \ {c[T]} \in D(n)
      OBVIOUS
    <3>1. T \in SUBSET S /\ Cardinality(T) <= n + 1 /\ Cardinality(T) \in Nat /\ IsFiniteSet(T) BY <1>1
    <3>2. c[T] \in T BY <3>1
    <3>3. Cardinality(T \ {c[T]}) = Cardinality(T) - 1 BY <3>1, <3>2, FS_RemoveElement, ZenonT(40)
    <3>4. T \ {c[T]} \in SUBSET S /\ Cardinality(T \ {c[T]}) <= n BY <3>1, <3>3
    <3> QED BY <3>4
  <2>2. \A T \in D(n) : T \in D(n + 1) BY <1>1
  <2>3. {} \in D(n + 1) /\ {} \in D(n) BY <1>2
  <2>4. h \in [D(n + 1) -> X]
    <3> SUFFICES ASSUME NEW T \in D(n + 1), T # {} PROVE G[<<T, g[T \ {c[T]}]>>] \in X
      OBVIOUS
    <3>1. g[T \ {c[T]}] \in X BY <2>0, <2>1
    <3> QED BY <3>1
  <2>5. h[{}] = b BY <2>3
  <2>6. \A T \in D(n) : h[T] = g[T]
    <3> HIDE DEF D
    <3> QED BY <2>0, <2>2, <2>3
  <2>7. \A T \in D(n + 1) : T # {} => h[T] = G[<<T, h[T \ {c[T]}]>>]
    <3> SUFFICES ASSUME NEW T \in D(n + 1), T # {} PROVE h[T] = G[<<T, h[T \ {c[T]}]>>]
      OBVIOUS
    <3>1. h[T] = G[<<T, g[T \ {c[T]}]>>] OBVIOUS
    <3> HIDE DEF h
    <3> QED BY <3>1, <2>1, <2>6
  <2>8. Upto(n + 1, h)
    <3> HIDE DEF h, D
    <3> QED BY <2>4, <2>5, <2>7
  <2> HIDE DEF h, Upto
  <2> QED BY <2>8
<1> HIDE DEF N
<1>5. Nat \subseteq N BY ONLY <1>3, <1>4, SetInduction
<1>6. PICK g : Upto(Cardinality(S), g)
  <2>1. S \in SUBSET S OBVIOUS
  <2>2. Cardinality(S) \in N BY <1>1, <1>5, <2>1
  <2> QED BY <2>2 DEF N
<1>7. D(Cardinality(S)) = SUBSET S
  <2>1. \A T \in SUBSET S : Cardinality(T) <= Cardinality(S) BY FS_Subset
  <2> QED BY <2>1
<1> HIDE DEF D
<1> QED BY <1>6, <1>7 DEF Made

\* What holds of nothing, and is kept by each further element, holds of the set.
LEMMA SubsetSteps ==
  ASSUME NEW S, IsFiniteSet(S), NEW c, \A T \in SUBSET S : T # {} => c[T] \in T,
         NEW A, {} \in A, \A T \in SUBSET S : T # {} /\ T \ {c[T]} \in A => T \in A
  PROVE  S \in A
<1> DEFINE D(n) == {T \in SUBSET S : Cardinality(T) <= n}
           N == {n \in Nat : D(n) \subseteq A}
<1>1. \A T \in SUBSET S : IsFiniteSet(T) /\ Cardinality(T) \in Nat
  BY FS_Subset, FS_CardinalityType
<1>2. Cardinality({}) = 0 /\ \A T \in SUBSET S : Cardinality(T) = 0 => T = {}
  BY <1>1, FS_EmptySet
<1>3. 0 \in N
  <2>1. \A T \in D(0) : T = {} BY <1>1, <1>2
  <2> QED BY <2>1
<1>4. \A n \in Nat : n \in N => n + 1 \in N
  <2> SUFFICES ASSUME NEW n \in Nat, n \in N PROVE D(n + 1) \subseteq A
    OBVIOUS
  <2> SUFFICES ASSUME NEW T \in D(n + 1) PROVE T \in A
    OBVIOUS
  <2>1. CASE T = {} BY <2>1
  <2>2. CASE T # {}
    <3>1. T \in SUBSET S /\ Cardinality(T) <= n + 1 /\ Cardinality(T) \in Nat /\ IsFiniteSet(T) BY <1>1
    <3>2. c[T] \in T BY <2>2, <3>1
    <3>3. Cardinality(T \ {c[T]}) = Cardinality(T) - 1 BY <3>1, <3>2, FS_RemoveElement
    <3>4. T \ {c[T]} \in D(n) BY <3>1, <3>3
    <3>5. T \ {c[T]} \in A BY <3>4
    <3> QED BY <2>2, <3>1, <3>5
  <2> QED BY <2>1, <2>2
<1> HIDE DEF N
<1>5. Nat \subseteq N BY ONLY <1>3, <1>4, SetInduction
<1>6. S \in SUBSET S /\ S \in D(Cardinality(S)) /\ Cardinality(S) \in N BY <1>1, <1>5
<1> QED BY <1>6 DEF N

\* What is made by the same steps is the same.
LEMMA SameMade ==
  ASSUME NEW S, IsFiniteSet(S), NEW c, \A T \in SUBSET S : T # {} => c[T] \in T,
         NEW f, NEW g, f[{}] = g[{}],
         \A T \in SUBSET S : T # {} /\ f[T \ {c[T]}] = g[T \ {c[T]}] => f[T] = g[T]
  PROVE  f[S] = g[S]
<1> DEFINE A == {T \in SUBSET S : f[T] = g[T]}
<1>1. {} \in A /\ \A T \in SUBSET S : T # {} /\ T \ {c[T]} \in A => T \in A
  OBVIOUS
<1>2. S \in A
  <2> HIDE DEF A
  <2> QED BY <1>1, SubsetSteps
<1> QED BY <1>2

-----------------------------------------------------------------------------
(* The files of levels, the cache of sums and the previews.                 *)

Phases == {"off", "settings", "previews", "writing", "running", "ending"}
KnownSums == L!Sums \cup {0}
ProgType == [phase : Phases, version : Nat, entries : Seq([path : Paths, sum : L!Sums]),
             cache : [Paths -> KnownSums], regenerate : BOOLEAN, next : Nat \ {0}, level : KnownSums]
StoreType == [cache : [Paths -> KnownSums], previews : [L!Sums -> Contents \cup {L!None, L!Torn}],
              config : [version : Nat, level : KnownSums]]

LibraryTypes ==
  /\ files \in [Paths -> Contents \cup {L!None}]
  /\ store \in StoreType /\ prog \in ProgType
  /\ history \in [there : SUBSET Contents, changes : Nat]
  /\ \A p \in Paths : files[p] # L!None => files[p] \in history.there

Has(pv, s) == pv[s] # L!None

\* A preview is torn, or of a content that was there and had that sum.
Previewed ==
  \A s \in L!Sums :
    \/ store.previews[s] \in {L!None, L!Torn}
    \/ store.previews[s] \in history.there /\ Sum[store.previews[s]] = s

\* The sum of an entry is that of its file, or there is a preview for it.
Fresh(e, fs) == fs[e.path] # L!None /\ e.sum = Sum[fs[e.path]]
Listed(pr, fs, pv) ==
  /\ \A i \in DOMAIN pr.entries :
       Fresh(pr.entries[i], fs) \/ (~ pr.regenerate /\ Has(pv, pr.entries[i].sum))
  /\ \A p \in Paths : pr.cache[p] # 0 =>
       \/ ~ pr.regenerate /\ Has(pv, pr.cache[p])
       \/ /\ fs[p] # L!None /\ pr.cache[p] = Sum[fs[p]]
          /\ \E i \in DOMAIN pr.entries : pr.entries[i].sum = pr.cache[p]

\* What the cache knows has a preview, and so has every entry gone through.
Gone ==
  /\ \A p \in Paths : store.cache[p] # 0 => Has(store.previews, store.cache[p])
  /\ prog.phase \in {"off", "settings"} =>
       prog.entries = <<>> /\ prog.next = 1 /\ \A p \in Paths : prog.cache[p] = 0
  /\ prog.phase \in {"previews", "writing"} =>
       /\ Listed(prog, files, store.previews)
       /\ \A i \in DOMAIN prog.entries : i < prog.next => Has(store.previews, prog.entries[i].sum)
  /\ prog.phase = "writing" =>
       prog.next \in DOMAIN prog.entries /\ Fresh(prog.entries[prog.next], files)
  /\ prog.phase \in {"running", "ending"} =>
       /\ \A i \in DOMAIN prog.entries : Has(store.previews, prog.entries[i].sum)
       /\ \A p \in Paths : prog.cache[p] # 0 => Has(store.previews, prog.cache[p])

LibraryInv == LibraryTypes /\ Previewed /\ Gone

\* Adding a file keeps the entries sound.
LEMMA FileAdded ==
  ASSUME LibraryInv, NEW pr \in ProgType, Listed(pr, files, store.previews), NEW p \in Paths, files[p] # L!None
  PROVE  /\ L!AddFile(pr, p) \in ProgType /\ Listed(L!AddFile(pr, p), files, store.previews)
         /\ L!AddFile(pr, p).regenerate = pr.regenerate
         /\ L!AddFile(pr, p).next = pr.next
<1> DEFINE s == IF pr.cache[p] # 0 THEN pr.cache[p] ELSE Sum[files[p]]
           e == [path |-> p, sum |-> s]
           k == [pr.cache EXCEPT ![p] = s]
           en == Append(pr.entries, e)
           nw == [pr EXCEPT !.entries = en, !.cache = k]
<1>1. L!AddFile(pr, p) = nw BY DEF L!AddFile, ProgType
<1>2. files[p] \in Contents /\ Sum[files[p]] \in L!Sums BY DEF LibraryInv, LibraryTypes, L!Sums
<1>3. pr.cache[p] \in KnownSums BY DEF ProgType
<1>4. s \in L!Sums BY <1>2, <1>3 DEF KnownSums
<1>5. Fresh(e, files) \/ (~ pr.regenerate /\ Has(store.previews, s))
  <2>1. CASE pr.cache[p] = 0 BY <2>1 DEF Fresh
  <2>2. CASE pr.cache[p] # 0 BY <2>2 DEF Fresh, Listed
  <2> QED BY <2>1, <2>2
<1>6. pr.entries \in Seq([path : Paths, sum : L!Sums]) /\ pr.cache \in [Paths -> KnownSums]
  BY DEF ProgType
<1>7. e \in [path : Paths, sum : L!Sums] /\ e.sum = s BY <1>4
<1>8. k \in [Paths -> KnownSums] /\ k[p] = s /\ \A q \in Paths \ {p} : k[q] = pr.cache[q]
  BY <1>4, <1>6 DEF KnownSums
<1> HIDE DEF e
<1>9. /\ en \in Seq([path : Paths, sum : L!Sums]) /\ DOMAIN en = DOMAIN pr.entries \cup {Len(pr.entries) + 1}
      /\ Len(pr.entries) + 1 \notin DOMAIN pr.entries
      /\ en[Len(pr.entries) + 1] = e /\ \A i \in DOMAIN pr.entries : en[i] = pr.entries[i]
  BY <1>6, <1>7
<1> HIDE DEF en, k, s
<1>10. /\ nw \in ProgType /\ nw.entries = en /\ nw.cache = k /\ nw.regenerate = pr.regenerate
       /\ nw.next = pr.next
  BY <1>8, <1>9 DEF ProgType
<1> HIDE DEF nw
<1>11. \A i \in DOMAIN en : Fresh(en[i], files) \/ (~ pr.regenerate /\ Has(store.previews, en[i].sum))
  BY <1>5, <1>7, <1>9 DEF Listed
<1>12. ASSUME NEW q \in Paths, k[q] # 0
       PROVE  \/ ~ pr.regenerate /\ Has(store.previews, k[q])
              \/ /\ files[q] # L!None /\ k[q] = Sum[files[q]]
                 /\ \E i \in DOMAIN en : en[i].sum = k[q]
  <2>1. CASE q = p
    <3>1. k[q] = s /\ \E i \in DOMAIN en : en[i].sum = k[q] BY <1>7, <1>8, <1>9, <2>1
    <3>2. Fresh(e, files) => files[q] # L!None /\ s = Sum[files[q]]
      BY <1>7, <2>1 DEF Fresh, e
    <3> QED BY <3>1, <3>2, <1>5
  <2>2. CASE q # p
    <3>1. k[q] = pr.cache[q] BY <1>8, <2>2
    <3>2. CASE ~ pr.regenerate /\ Has(store.previews, k[q]) BY <3>2
    <3>3. CASE ~ (~ pr.regenerate /\ Has(store.previews, k[q]))
      <4>1. /\ files[q] # L!None /\ k[q] = Sum[files[q]]
            /\ \E i \in DOMAIN pr.entries : pr.entries[i].sum = k[q]
        BY <3>1, <3>3, <1>12 DEF Listed
      <4> QED BY <4>1, <1>9
    <3> QED BY <3>2, <3>3
  <2> QED BY <2>1, <2>2
<1>13. Listed(nw, files, store.previews) BY <1>10, <1>11, <1>12 DEF Listed
<1> QED BY <1>1, <1>10, <1>13

LEMMA FilesAdded ==
  ASSUME LibraryInv, NEW base \in ProgType, Listed(base, files, store.previews),
         NEW order \in L!SetToSeqs({p \in Paths : files[p] # L!None}),
         NEW result, result = L!FoldLeft(L!AddFile, base, order)
  PROVE  /\ result \in ProgType /\ Listed(result, files, store.previews)
         /\ result.regenerate = base.regenerate /\ result.next = base.next
<1> DEFINE S == DOMAIN order
           X == {pr \in ProgType : /\ Listed(pr, files, store.previews) /\ pr.regenerate = base.regenerate
                                   /\ pr.next = base.next}
           c == [T \in SUBSET S |-> L!Max(T)]
           G == [pair \in (SUBSET S) \X X |->
                   IF pair[1] = {} THEN base ELSE L!AddFile(pair[2], order[L!Max(pair[1])])]
           iter[T \in SUBSET S] ==
             IF T = {} THEN base
             ELSE LET t == L!Max(T) IN L!AddFile(iter[T \ {t}], order[t])
<1>1. PICK n : S = 1 .. n /\ n \in Nat /\ \A i \in S : order[i] \in Paths /\ files[order[i]] # L!None
  <2> DEFINE F == {p \in Paths : files[p] # L!None}
             n == L!Cardinality(F)
  <2>1. order \in [1 .. n -> F] BY DEF L!SetToSeqs
  <2>2. S = 1 .. n /\ \A i \in S : order[i] \in F
    <3> HIDE DEF n, F
    <3> QED BY <2>1
  <2>3. IsFiniteSet(F) BY LibraryAssumption, FS_Subset
  <2>4. n \in Nat
    <3> HIDE DEF F
    <3> QED BY <2>3, FS_CardinalityType DEF L!Cardinality, Cardinality
  <2> QED BY <2>2, <2>4
<1>2. IsFiniteSet(S)
  <2> HIDE DEF S
  <2>1. 1 \in Int /\ n \in Int BY <1>1
  <2>2. IsFiniteSet(1 .. n) BY ONLY <2>1, FS_Interval
  <2> QED BY <1>1, <2>2
<1>3. \A T \in SUBSET S : T # {} => c[T] \in T /\ c[T] = L!Max(T)
  <2> SUFFICES ASSUME NEW T \in SUBSET S, T # {} PROVE L!Max(T) \in T
    OBVIOUS
  <2>1. \E p \in T : \A q \in T : p >= q BY <1>1, GreatestIn
  <2> QED BY <2>1 DEF L!Max
<1>4. base \in X OBVIOUS
<1>5. G \in [(SUBSET S) \X X -> X]
  <2> SUFFICES ASSUME NEW T \in SUBSET S, NEW pr \in X, T # {} PROVE L!AddFile(pr, order[L!Max(T)]) \in X
    BY <1>4
  <2>1. L!Max(T) \in S BY <1>3
  <2>2. order[L!Max(T)] \in Paths /\ files[order[L!Max(T)]] # L!None BY <1>1, <2>1
  <2> QED BY <2>2, FileAdded
<1>6. PICK g : Made(g, S, X, base, c, G)
  <2>1. \A T \in SUBSET S : T # {} => c[T] \in T BY <1>3
  <2> HIDE DEF S, X, c, G
  <2> QED BY ONLY <1>2, <1>4, <1>5, <2>1, MadeExists
<1>7. g = [T \in SUBSET S |-> IF T = {} THEN base
                              ELSE LET t == L!Max(T) IN L!AddFile(g[T \ {t}], order[t])]
  <2>1. ASSUME NEW T \in SUBSET S, T # {} PROVE g[T] = L!AddFile(g[T \ {L!Max(T)}], order[L!Max(T)])
    <3>1. g[T] = G[<<T, g[T \ {L!Max(T)}]>>]
      <4> HIDE DEF S, X, c, G
      <4> QED BY <1>3, <1>6, <2>1 DEF Made
    <3>2. g[T \ {L!Max(T)}] \in X
      <4> HIDE DEF S, X, c, G
      <4> QED BY <1>6, <2>1 DEF Made
    <3> QED BY <3>1, <3>2, <2>1
  <2>2. g \in [SUBSET S -> X] /\ g[{}] = base
    <3> HIDE DEF S, X, c, G
    <3> QED BY <1>6 DEF Made
  <2> HIDE DEF S, X, c, G
  <2> QED BY <2>1, <2>2
<1>8. iter = [T \in SUBSET S |-> IF T = {} THEN base
                                 ELSE LET t == L!Max(T) IN L!AddFile(iter[T \ {t}], order[t])]
  <2> HIDE DEF S, X, c, G
  <2> QED BY <1>7, Zenon
<1>9. result = iter[S] BY Zenon DEF L!FoldLeft, L!MapThenFoldSet
<1> HIDE DEF iter
<1>10. iter[S] = g[S]
  <2>1. \A T \in SUBSET S : T # {} => c[T] \in T BY <1>3
  <2>2. iter[{}] = g[{}] BY <1>7, <1>8
  <2>3. ASSUME NEW T \in SUBSET S, T # {}, iter[T \ {c[T]}] = g[T \ {c[T]}] PROVE iter[T] = g[T]
    <3>1. c[T] = L!Max(T) BY <1>3, <2>3
    <3> HIDE DEF S, X, c, G
    <3>2. iter[T] = L!AddFile(iter[T \ {L!Max(T)}], order[L!Max(T)]) BY <1>8, <2>3
    <3>3. g[T] = L!AddFile(g[T \ {L!Max(T)}], order[L!Max(T)]) BY <1>7, <2>3
    <3> QED BY <2>3, <3>1, <3>2, <3>3
  <2> HIDE DEF S, X, c, G
  <2> QED BY ONLY <1>2, <2>1, <2>2, <2>3, SameMade
<1>11. result \in X
  <2>1. S \in SUBSET S OBVIOUS
  <2> HIDE DEF S, X, c, G
  <2> QED BY <1>6, <1>9, <1>10, <2>1 DEF Made
<1> QED BY <1>11

LEMMA LibraryInit == L!Init => LibraryInv
<1> SUFFICES ASSUME L!Init PROVE LibraryInv
  OBVIOUS
<1>1. prog \in ProgType BY DEF L!Init, L!Off, ProgType, Phases, KnownSums
<1>2. store \in StoreType BY DEF L!Init, StoreType, KnownSums
<1>3. LibraryTypes BY <1>1, <1>2 DEF L!Init, LibraryTypes
<1>4. Previewed BY DEF L!Init, Previewed
<1>5. Gone BY DEF L!Init, L!Off, Gone
<1> QED BY <1>3, <1>4, <1>5 DEF LibraryInv

\* What has a preview keeps it, and with it the entries are sound.
LEMMA StillListed ==
  ASSUME NEW pr, NEW new, NEW fs, NEW pv, NEW pw,
         \A s \in L!Sums : Has(pv, s) => Has(pw, s),
         \A i \in DOMAIN pr.entries : pr.entries[i].sum \in L!Sums,
         \A p \in Paths : pr.cache[p] # 0 => pr.cache[p] \in L!Sums,
         Listed(pr, fs, pv),
         new.entries = pr.entries, new.cache = pr.cache, new.regenerate = pr.regenerate
  PROVE  Listed(new, fs, pw)
BY DEF Listed

\* What holds of a program that is off.
LEMMA OffIs ==
  ASSUME NEW v \in Nat
  PROVE  /\ L!Off(v) \in ProgType /\ L!Off(v).phase = "off" /\ L!Off(v).entries = <<>>
         /\ L!Off(v).next = 1 /\ \A p \in Paths : L!Off(v).cache[p] = 0
BY DEF L!Off, ProgType, Phases, KnownSums

LEMMA GoesOff ==
  ASSUME LibraryInv, NEW v \in Nat, prog' = L!Off(v), UNCHANGED <<files, history>>,
         store' \in StoreType, store'.previews = store.previews,
         \A p \in Paths : store'.cache[p] # 0 => Has(store.previews, store'.cache[p])
  PROVE  LibraryInv'
<1>1. /\ prog' \in ProgType /\ prog'.phase = "off" /\ prog'.entries = <<>>
      /\ prog'.next = 1 /\ \A p \in Paths : prog'.cache[p] = 0
  BY OffIs
<1>2. LibraryTypes' BY <1>1 DEF LibraryInv, LibraryTypes
<1>3. Previewed' BY DEF LibraryInv, Previewed
<1>4. Gone' BY <1>1 DEF Gone, Has
<1> QED BY <1>2, <1>3, <1>4 DEF LibraryInv

LEMMA LibraryStep == LibraryInv /\ L!Next => LibraryInv'
<1> SUFFICES ASSUME LibraryInv, L!Next PROVE LibraryInv'
  OBVIOUS
<1>0. LibraryTypes /\ Previewed /\ Gone /\ prog.version \in Nat BY DEF LibraryInv, LibraryTypes, ProgType
<1>k. \A p \in Paths : store.cache[p] # 0 => Has(store.previews, store.cache[p]) BY <1>0 DEF Gone
<1>1. CASE L!Start
  <2>1. /\ prog.phase = "off" /\ UNCHANGED <<files, store, history>>
        /\ prog' = L!ReadConfig(prog.version)
    BY <1>1 DEF L!Start
  <2>2. /\ prog' \in ProgType /\ prog'.phase = "settings" /\ prog'.entries = <<>>
        /\ prog'.next = 1 /\ \A p \in Paths : prog'.cache[p] = 0
    <3>1. PICK off : off = L!Off(prog.version) OBVIOUS
    <3>2. off \in ProgType /\ off.entries = <<>> /\ off.next = 1 /\ \A p \in Paths : off.cache[p] = 0
      BY <1>0, <3>1, OffIs
    <3>3. store.config.level \in KnownSums /\ L!Regenerate(prog.version) \in BOOLEAN
      BY <1>0 DEF LibraryTypes, StoreType, L!Regenerate
    <3>4. PICK lv \in KnownSums, rg \in BOOLEAN :
               prog' = [off EXCEPT !.phase = "settings", !.level = lv, !.regenerate = rg]
      BY <2>1, <3>1, <3>3 DEF L!ReadConfig
    <3> QED BY <3>2, <3>4 DEF ProgType, Phases
  <2>3. LibraryTypes' /\ Previewed' BY <1>0, <2>1, <2>2 DEF LibraryTypes, Previewed
  <2>4. Gone' BY <1>0, <2>1, <2>2 DEF Gone, Has
  <2> QED BY <2>3, <2>4 DEF LibraryInv
<1>2. CASE L!AddFiles
  <2>1. PICK order \in L!SetToSeqs({p \in Paths : files[p] # L!None}) :
             prog' = [L!FoldLeft(L!AddFile, L!CreateDatabase, order) EXCEPT !.phase = "previews"]
    BY <1>2 DEF L!AddFiles
  <2>2. prog.phase = "settings" /\ UNCHANGED <<files, store, history>> BY <1>2 DEF L!AddFiles
  <2> DEFINE base == L!CreateDatabase
  <2>3. base \in ProgType /\ base.entries = <<>> /\ base.regenerate = prog.regenerate /\ base.next = 1
        /\ \A p \in Paths : base.cache[p] # 0 => ~ prog.regenerate /\ base.cache[p] = store.cache[p]
    <3>1. PICK k : k = IF prog.regenerate THEN prog.cache ELSE store.cache OBVIOUS
    <3>2. base = [prog EXCEPT !.cache = k] BY <3>1 DEF L!CreateDatabase
    <3>3. k \in [Paths -> KnownSums]
          /\ \A p \in Paths : k[p] # 0 => ~ prog.regenerate /\ k[p] = store.cache[p]
      BY <1>0, <2>2, <3>1 DEF LibraryTypes, ProgType, StoreType, Gone
    <3>4. prog \in ProgType /\ prog.entries = <<>> /\ prog.next = 1 BY <1>0, <2>2 DEF LibraryTypes, Gone
    <3> HIDE DEF base
    <3> QED BY <3>2, <3>3, <3>4 DEF ProgType
  <2>4. Listed(base, files, store.previews) BY <2>3, <1>k DEF Listed
  <2>5. PICK result : result = L!FoldLeft(L!AddFile, base, order) OBVIOUS
  <2> HIDE DEF base
  <2>6. result \in ProgType /\ Listed(result, files, store.previews) /\ result.next = 1 BY <2>1, <2>3, <2>4, <2>5, FilesAdded
  <2>7. prog' = [result EXCEPT !.phase = "previews"] BY <2>1, <2>5 DEF base
  <2>8. /\ prog' \in ProgType /\ prog'.phase = "previews" /\ prog'.entries = result.entries
        /\ prog'.cache = result.cache /\ prog'.next = 1 /\ prog'.regenerate = result.regenerate
    BY <2>6, <2>7 DEF ProgType, Phases
  <2>9. LibraryTypes' /\ Previewed' BY <1>0, <2>2, <2>8 DEF LibraryTypes, Previewed
  <2>10. \A i \in DOMAIN prog'.entries : ~ i < prog'.next BY <2>8 DEF ProgType
  <2>11. Gone' BY <1>k, <2>2, <2>6, <2>8, <2>10 DEF Gone, Has, Listed, Fresh
  <2> QED BY <2>9, <2>11 DEF LibraryInv
<1> DEFINE At == prog.phase = "previews" /\ prog.next <= Len(prog.entries)
<1>e. /\ prog \in ProgType /\ prog.entries \in Seq([path : Paths, sum : L!Sums]) /\ prog.next \in Nat \ {0}
      /\ store \in StoreType /\ store.previews \in [L!Sums -> Contents \cup {L!None, L!Torn}]
      /\ prog.cache \in [Paths -> KnownSums]
  BY <1>0 DEF LibraryTypes, ProgType, StoreType
<1>b. /\ DOMAIN prog.entries = 1 .. Len(prog.entries) /\ Len(prog.entries) \in Nat
      /\ \A i \in DOMAIN prog.entries : prog.entries[i] \in [path : Paths, sum : L!Sums]
  <2> DEFINE E == [path : Paths, sum : L!Sums]
  <2>1. prog.entries \in Seq(E) BY <1>e
  <2> HIDE DEF E
  <2>2. /\ DOMAIN prog.entries = 1 .. Len(prog.entries) /\ Len(prog.entries) \in Nat
        /\ \A i \in DOMAIN prog.entries : prog.entries[i] \in E
    BY ONLY <2>1
  <2> QED BY <2>2 DEF E
<1>c. /\ \A i \in DOMAIN prog.entries : prog.entries[i].sum \in L!Sums /\ prog.entries[i].path \in Paths
      /\ \A p \in Paths : prog.cache[p] # 0 => prog.cache[p] \in L!Sums
      /\ \A p \in Paths : store.cache[p] # 0 => store.cache[p] \in L!Sums
  BY <1>b, <1>e DEF KnownSums, StoreType
<1>a. At => /\ prog.next \in DOMAIN prog.entries /\ L!Entry \in [path : Paths, sum : L!Sums]
            /\ L!Entry = prog.entries[prog.next]
  <2>1. SUFFICES ASSUME At PROVE /\ prog.next \in DOMAIN prog.entries
            /\ L!Entry \in [path : Paths, sum : L!Sums] /\ L!Entry = prog.entries[prog.next]
    OBVIOUS
  <2>2. prog.next \in DOMAIN prog.entries BY <1>b, <1>e, <2>1
  <2> QED BY <1>b, <2>2 DEF L!Entry
<1>3. CASE L!HasPreview
  <2>1. /\ At /\ ~ L!ToMake /\ prog' = [prog EXCEPT !.next = @ + 1] /\ UNCHANGED <<files, store, history>>
    BY <1>3 DEF L!HasPreview
  <2>2. Has(store.previews, L!Entry.sum) BY <2>1 DEF L!ToMake, Has
  <2>3. /\ prog' \in ProgType /\ prog'.phase = "previews" /\ prog'.entries = prog.entries
        /\ prog'.cache = prog.cache /\ prog'.next = prog.next + 1 /\ prog'.regenerate = prog.regenerate
    BY <1>e, <2>1 DEF ProgType
  <2>4. LibraryTypes' /\ Previewed' BY <1>0, <2>1, <2>3 DEF LibraryTypes, Previewed
  <2>5. ASSUME NEW i \in DOMAIN prog.entries, i < prog.next + 1 PROVE Has(store.previews, prog.entries[i].sum)
    <3>1. i < prog.next \/ i = prog.next BY <1>e, <2>5
    <3> QED BY <1>0, <1>a, <2>1, <2>2, <3>1 DEF Gone
  <2>6. Gone' BY <1>0, <2>1, <2>3, <2>5 DEF Gone, Has, Listed, Fresh
  <2> QED BY <2>4, <2>6 DEF LibraryInv
<1>4. CASE L!LoadFails
  BY <1>0, <1>e, <1>k, <1>4, GoesOff DEF L!LoadFails
<1>l. ASSUME prog.phase \in {"previews", "writing"}, UNCHANGED files,
             \A s \in L!Sums : Has(store.previews, s) => Has(store'.previews, s),
             prog'.entries = prog.entries, prog'.cache = prog.cache,
             prog'.regenerate = prog.regenerate, store'.cache = store.cache
      PROVE  /\ Listed(prog', files', store'.previews)
             /\ \A p \in Paths : store'.cache[p] # 0 => Has(store'.previews, store'.cache[p])
             /\ \A i \in DOMAIN prog'.entries : i < prog.next => Has(store'.previews, prog'.entries[i].sum)
  <2>1. /\ Listed(prog, files, store.previews)
        /\ \A i \in DOMAIN prog.entries : i < prog.next => Has(store.previews, prog.entries[i].sum)
    BY <1>0, <1>l DEF Gone
  <2>2. PICK pv, pw, fs, nw : pv = store.previews /\ pw = store'.previews /\ fs = files /\ nw = prog'
    OBVIOUS
  <2>3. Listed(nw, fs, pw)
    <3>1. Listed(prog, fs, pv) /\ nw.entries = prog.entries /\ nw.cache = prog.cache
          /\ nw.regenerate = prog.regenerate /\ \A s \in L!Sums : Has(pv, s) => Has(pw, s)
      BY <1>l, <2>1, <2>2
    <3> QED BY ONLY <1>c, <3>1, StillListed
  <2>4. Listed(prog', files', store'.previews) BY <1>l, <2>2, <2>3
  <2> QED BY <1>c, <1>k, <1>l, <2>1, <2>4
<1>5. CASE L!BeginPreview
  <2>1. /\ At /\ L!ToMake /\ prog' = [prog EXCEPT !.phase = "writing"] /\ UNCHANGED <<files, history>>
        /\ store' = [store EXCEPT !.previews[L!Entry.sum] = L!Torn]
    BY <1>5 DEF L!BeginPreview, L!ToMake
  <2>2. PICK s : s = L!Entry.sum OBVIOUS
  <2>3. s \in L!Sums /\ prog.next \in DOMAIN prog.entries /\ s = prog.entries[prog.next].sum
    BY <1>a, <2>1, <2>2
  <2>4. prog.regenerate \/ ~ Has(store.previews, s) BY <2>1, <2>2 DEF L!ToMake, Has
  <2>5. Listed(prog, files, store.previews) BY <1>0, <2>1 DEF Gone
  <2>6. Fresh(prog.entries[prog.next], files)
    BY <2>3, <2>4, <2>5 DEF Listed
  <2>7. /\ prog' \in ProgType /\ prog'.phase = "writing" /\ prog'.entries = prog.entries
        /\ prog'.cache = prog.cache /\ prog'.next = prog.next /\ prog'.regenerate = prog.regenerate
    BY <1>e, <2>1 DEF ProgType, Phases
  <2>8. /\ store' \in StoreType /\ store'.cache = store.cache
        /\ store'.previews = [store.previews EXCEPT ![s] = L!Torn]
    BY <1>e, <2>1, <2>2, <2>3 DEF StoreType
  <2>9. \A t \in L!Sums : /\ Has(store.previews, t) => Has(store'.previews, t)
                          /\ store'.previews[t] \in {store.previews[t], L!Torn}
    BY <1>e, <2>3, <2>8 DEF Has, L!None, L!Torn
  <2>10. LibraryTypes' BY <1>0, <2>1, <2>7, <2>8 DEF LibraryTypes
  <2>11. Previewed' BY <1>0, <2>1, <2>9 DEF Previewed
  <2>12. Gone'
    <3>1. /\ Listed(prog', files', store'.previews)
          /\ \A p \in Paths : store'.cache[p] # 0 => Has(store'.previews, store'.cache[p])
          /\ \A i \in DOMAIN prog'.entries : i < prog.next => Has(store'.previews, prog'.entries[i].sum)
      BY <1>l, <2>1, <2>7, <2>8, <2>9
    <3>2. prog'.next \in DOMAIN prog'.entries /\ Fresh(prog'.entries[prog'.next], files')
      BY <2>1, <2>3, <2>6, <2>7
    <3> QED BY <2>7, <3>1, <3>2 DEF Gone
  <2> QED BY <2>10, <2>11, <2>12 DEF LibraryInv
<1>6. CASE L!EndPreview
  <2>1. /\ prog.phase = "writing" /\ prog' = [prog EXCEPT !.phase = "previews", !.next = @ + 1]
        /\ UNCHANGED <<files, history>>
        /\ store' = [store EXCEPT !.previews[L!Entry.sum] = files[L!Entry.path]]
    BY <1>6 DEF L!EndPreview
  <2>2. prog.next \in DOMAIN prog.entries /\ Fresh(prog.entries[prog.next], files)
    BY <1>0, <2>1 DEF Gone
  <2>3. PICK s, f : s = L!Entry.sum /\ f = files[L!Entry.path] OBVIOUS
  <2>4. /\ s \in L!Sums /\ s = prog.entries[prog.next].sum
        /\ f \in history.there /\ f # L!None /\ f \in Contents /\ s = Sum[f]
    BY <1>0, <1>c, <2>2, <2>3 DEF Fresh, LibraryTypes, L!Entry
  <2>7. /\ prog' \in ProgType /\ prog'.phase = "previews" /\ prog'.entries = prog.entries
        /\ prog'.cache = prog.cache /\ prog'.next = prog.next + 1 /\ prog'.regenerate = prog.regenerate
    <3>1. PICK n : n = prog.next + 1 OBVIOUS
    <3>2. n \in Nat \ {0} BY <1>e, <3>1 DEF ProgType
    <3>3. prog' = [prog EXCEPT !.phase = "previews", !.next = n] BY <2>1, <3>1
    <3>4. "previews" \in Phases BY DEF Phases
    <3>5. prog' \in ProgType BY <1>e, <3>2, <3>3, <3>4 DEF ProgType
    <3> QED BY <1>e, <3>1, <3>3, <3>5 DEF ProgType
  <2>8. /\ store' \in StoreType /\ store'.cache = store.cache
        /\ store'.previews = [store.previews EXCEPT ![s] = f]
    BY <1>e, <2>1, <2>3, <2>4 DEF StoreType
  <2>9. /\ \A t \in L!Sums : /\ Has(store.previews, t) => Has(store'.previews, t)
                             /\ store'.previews[t] = IF t = s THEN f ELSE store.previews[t]
        /\ Has(store'.previews, s)
    BY <1>e, <2>4, <2>8 DEF Has
  <2>10. LibraryTypes' BY <1>0, <2>1, <2>7, <2>8 DEF LibraryTypes
  <2>11. Previewed' BY <1>0, <2>1, <2>4, <2>9 DEF Previewed
  <2>12. Gone'
    <3>1. /\ Listed(prog', files', store'.previews)
          /\ \A p \in Paths : store'.cache[p] # 0 => Has(store'.previews, store'.cache[p])
          /\ \A i \in DOMAIN prog'.entries : i < prog.next => Has(store'.previews, prog'.entries[i].sum)
      BY <1>l, <2>1, <2>7, <2>8, <2>9
    <3>2. ASSUME NEW i \in DOMAIN prog'.entries, i < prog'.next
          PROVE  Has(store'.previews, prog'.entries[i].sum)
      <4>1. i < prog.next \/ i = prog.next BY <1>b, <1>e, <2>7, <3>2
      <4> QED BY <2>4, <2>7, <2>9, <3>1, <4>1, ZenonT(40)
    <3> QED BY <2>7, <3>1, <3>2 DEF Gone
  <2> QED BY <2>10, <2>11, <2>12 DEF LibraryInv
\* Once all entries are gone through, whatever the cache knows has a preview.
<1>7. CASE L!Run
  <2>1. /\ prog.phase = "previews" /\ prog.next > Len(prog.entries)
        /\ UNCHANGED <<files, store, history>>
    BY <1>7 DEF L!Run
  <2>2. CASE prog.entries = <<>>
    BY <1>0, <1>e, <1>k, <1>7, <2>2, GoesOff DEF L!Run
  <2>3. CASE prog.entries # <<>>
    <3>1. PICK lv \in KnownSums : prog' = [prog EXCEPT !.phase = "running", !.level = lv]
      <4>1. 1 \in DOMAIN prog.entries BY <1>b, <1>e, <2>3
      <4>2. prog.entries[1].sum \in KnownSums /\ prog.level \in KnownSums
        BY <1>c, <1>e, <4>1 DEF KnownSums, ProgType
      <4> QED BY <1>7, <2>3, <4>2 DEF L!Run
    <3>2. /\ prog' \in ProgType /\ prog'.phase = "running" /\ prog'.entries = prog.entries
          /\ prog'.cache = prog.cache
      BY <1>e, <3>1 DEF ProgType, Phases
    <3>3. \A i \in DOMAIN prog.entries : Has(store.previews, prog.entries[i].sum)
      BY <1>0, <1>b, <1>e, <2>1 DEF Gone
    <3>4. \A p \in Paths : prog.cache[p] # 0 => Has(store.previews, prog.cache[p])
      BY <1>0, <2>1, <3>3 DEF Gone, Listed
    <3>5. LibraryTypes' /\ Previewed' BY <1>0, <2>1, <3>2 DEF LibraryTypes, Previewed
    <3>6. Gone' BY <1>k, <2>1, <3>2, <3>3, <3>4 DEF Gone
    <3> QED BY <3>5, <3>6 DEF LibraryInv
  <2> QED BY <2>2, <2>3
<1>8. ASSUME NEW s \in L!Sums, L!Select(s) PROVE LibraryInv'
  <2>1. /\ prog.phase = "running" /\ prog' = [prog EXCEPT !.level = s]
        /\ UNCHANGED <<files, store, history>>
    BY <1>8 DEF L!Select
  <2>2. /\ prog' \in ProgType /\ prog'.phase = "running" /\ prog'.entries = prog.entries
        /\ prog'.cache = prog.cache
    BY <1>e, <2>1 DEF ProgType, KnownSums
  <2>3. LibraryTypes' /\ Previewed' BY <1>0, <2>1, <2>2 DEF LibraryTypes, Previewed
  <2>4. Gone' BY <1>0, <1>k, <2>1, <2>2 DEF Gone
  <2> QED BY <2>3, <2>4 DEF LibraryInv
<1>9. CASE L!SaveConfig
  <2>1. /\ prog.phase = "running" /\ prog' = [prog EXCEPT !.phase = "ending"]
        /\ UNCHANGED <<files, history>>
        /\ store' = [store EXCEPT !.config = [version |-> prog.version, level |-> prog.level]]
    BY <1>9 DEF L!SaveConfig
  <2>2. /\ prog' \in ProgType /\ prog'.phase = "ending" /\ prog'.entries = prog.entries
        /\ prog'.cache = prog.cache
    BY <1>e, <2>1 DEF ProgType, Phases
  <2>3. store' \in StoreType /\ store'.cache = store.cache /\ store'.previews = store.previews
    BY <1>e, <2>1 DEF StoreType, ProgType
  <2>4. LibraryTypes' /\ Previewed' BY <1>0, <2>1, <2>2, <2>3 DEF LibraryTypes, Previewed
  <2>5. Gone' BY <1>0, <1>k, <2>1, <2>2, <2>3 DEF Gone
  <2> QED BY <2>4, <2>5 DEF LibraryInv
<1>10. CASE L!DestroyDatabase
  <2>1. /\ prog.phase = "ending" /\ prog' = L!Off(prog.version) /\ UNCHANGED <<files, history>>
        /\ store' = [store EXCEPT !.cache = prog.cache]
    BY <1>10 DEF L!DestroyDatabase
  <2>2. store' \in StoreType /\ store'.cache = prog.cache /\ store'.previews = store.previews
    BY <1>e, <2>1 DEF StoreType
  <2>3. \A p \in Paths : prog.cache[p] # 0 => Has(store.previews, prog.cache[p])
    BY <1>0, <2>1 DEF Gone
  <2> QED BY <1>0, <2>1, <2>2, <2>3, GoesOff
<1>11. CASE L!Killed
  BY <1>0, <1>e, <1>k, <1>11, GoesOff DEF L!Killed
<1>12. CASE L!Upgrade
  <2>1. prog.version + 1 \in Nat BY <1>0
  <2> QED BY <1>0, <1>e, <1>k, <1>12, <2>1, GoesOff DEF L!Upgrade
<1>13. ASSUME NEW p \in Paths, NEW k \in Contents \cup {L!None}, L!Change(p, k) PROVE LibraryInv'
  <2>1. /\ prog.phase \in {"off", "running"} /\ files' = [files EXCEPT ![p] = k]
        /\ history' = [there |-> history.there \cup ({k} \ {L!None}), changes |-> history.changes + 1]
        /\ UNCHANGED <<store, prog>>
    BY <1>13 DEF L!Change
  <2>2. PICK th : th = history.there OBVIOUS
  <2>3. history' \in [there : SUBSET Contents, changes : Nat]
        /\ history'.there = th \cup ({k} \ {L!None})
    BY <1>0, <2>1, <2>2 DEF LibraryTypes
  <2>4. LibraryTypes' BY <1>0, <2>1, <2>2, <2>3 DEF LibraryTypes
  <2>5. Previewed' BY <1>0, <2>1, <2>2, <2>3 DEF Previewed
  <2>6. Gone' BY <1>0, <2>1 DEF Gone
  <2> QED BY <2>4, <2>5, <2>6 DEF LibraryInv
<1> QED
  BY <1>1, <1>2, <1>3, <1>4, <1>5, <1>6, <1>7, <1>8, <1>9, <1>10, <1>11, <1>12, <1>13 DEF L!Next

LEMMA LibraryShows == LibraryInv => L!PreviewIsOfLevel
<1> SUFFICES ASSUME LibraryInv, prog.phase = "running", NEW e \in L!ToSet(prog.entries),
                    files[e.path] # L!None, e.sum = Sum[files[e.path]]
             PROVE  \/ \E d \in history.there : d # files[e.path] /\ Sum[d] = Sum[files[e.path]]
                    \/ store.previews[e.sum] \in {files[e.path], L!Torn}
  BY DEF L!PreviewIsOfLevel
<1>1. PICK i \in DOMAIN prog.entries : e = prog.entries[i] BY DEF L!ToSet
<1>2. e.sum \in L!Sums
  <2> DEFINE E == [path : Paths, sum : L!Sums]
  <2>1. prog.entries \in Seq(E) BY DEF LibraryInv, LibraryTypes, ProgType
  <2> HIDE DEF E
  <2>2. prog.entries[i] \in E BY ONLY <2>1, <1>1
  <2> QED BY <1>1, <2>2 DEF E
<1>3. Has(store.previews, e.sum) BY <1>1 DEF LibraryInv, Gone
<1> QED BY <1>2, <1>3 DEF LibraryInv, Previewed, Has

(* pp2_create_database, pp2_database_add_file, the previews made at the     *)
(* start, the saving of settings and caches: whatever files come and go     *)
(* between the runs of the program and wherever it is killed, the preview   *)
(* it shows for a level is of that level.  Not so where the file was saved  *)
(* over after its sum was taken, since the code goes on using the old sum;  *)
(* where another content has had the same sum; and where the program was    *)
(* killed while the preview was being written.                              *)
THEOREM PreviewsRight == MCSpec => []PreviewIsOfLevel
<1>1. MCInit => LibraryInv BY LibraryInit DEF MCInit
<1>2. LibraryInv /\ [MCNext]_allVars => LibraryInv'
  <2> SUFFICES ASSUME LibraryInv, [MCNext]_allVars PROVE LibraryInv'
    OBVIOUS
  <2>1. L!Next \/ UNCHANGED fileVars
    BY DEF MCNext, Only, allVars
  <2>2. UNCHANGED fileVars => LibraryInv'
    BY DEF fileVars, LibraryInv, LibraryTypes, Previewed, Gone
  <2> QED BY <2>1, <2>2, LibraryStep
<1>3. LibraryInv => PreviewIsOfLevel BY LibraryShows DEF PreviewIsOfLevel
<1> QED BY <1>1, <1>2, <1>3, PTL DEF MCSpec

-----------------------------------------------------------------------------
(* What is seen on the screen.                                              *)

USE DEF V!Players

Pictures ==
  /\ game \in Games
  /\ turn \in {V!None} \cup (0 .. NumPlayers)
  /\ active \subseteq playing /\ playing \subseteq V!Players
  /\ cloaked \subseteq V!Players /\ hidden \subseteq V!Players
  /\ fade \in [V!Players -> Int]
  /\ target \in [V!Players -> V!Players \cup {V!None}]
  /\ phase = "game" => winner = V!None

\* Who comes in marks nobody; and who has had its turn marks nobody who has been
\* cloaked since the tick began, unless a chat brought it back since it last moved.
Marks ==
  /\ \A p \in V!Players : fade[p] > 0 => target[p] = V!None
  /\ turn # V!None => hidden \subseteq cloaked
  /\ phase = "game" =>
       \A v \in active \ revived :
         (turn = V!None \/ v < turn) /\ fade[v] = 0 => target[v] \notin hidden

ViewsInv == Pictures /\ Marks

LEMMA NumberOfPlayers == NumPlayers \in Nat /\ FadeTime \in Nat /\ FadeTime >= 2
  BY ViewsAssumption

LEMMA SameCardinality == \A S : V!Cardinality(S) = Cardinality(S)
  BY DEF V!Cardinality, Cardinality

\* A chat gives the players of a client the flags of others.
LEMMA ChatCopies ==
  ASSUME NEW client, V!Chat(client)
  PROVE  /\ active' \subseteq active \cup client /\ cloaked' \subseteq cloaked \cup client
         /\ client \subseteq playing /\ turn = V!None /\ active' \ active \subseteq revived'
         /\ revived \subseteq revived'
         /\ UNCHANGED <<game, phase, turn, playing, fade, target, winner, hidden>>
<1> DEFINE place(s) == V!Cardinality({r \in client : r < s})
           from[s \in client] == IF place(s) \in client \ {s} THEN from[place(s)] ELSE place(s)
           copied(all) == (all \ client) \cup {s \in client : from[s] \in all}
<1>1. /\ active' = copied(active) /\ cloaked' = copied(cloaked) /\ client \subseteq playing
      /\ turn = V!None /\ revived' = revived \cup (active' \ active)
      /\ UNCHANGED <<game, phase, turn, playing, fade, target, winner, hidden>>
  BY DEF V!Chat
<1> HIDE DEF from
<1> QED BY <1>1

LEMMA ViewsInit == V!Init => ViewsInv
  BY ViewsAssumption DEF V!Init, ViewsInv, Pictures, Marks, V!None

LEMMA ViewsStep == ViewsInv /\ V!Next => ViewsInv'
<1> SUFFICES ASSUME ViewsInv, V!Next PROVE ViewsInv'
  OBVIOUS
<1> USE NumberOfPlayers DEF ViewsInv, V!people
<1>1. CASE V!BeginTick
  <2>1. Pictures' BY <1>1 DEF V!BeginTick, V!Winners, Pictures, V!None
  <2>2. Marks' BY <1>1 DEF V!BeginTick, V!Winners, Pictures, Marks, V!None
  <2> QED BY <2>1, <2>2
<1>2. CASE V!Skip
  <2>1. Pictures' BY <1>2 DEF V!Skip, V!Winners, Pictures, V!None
  <2>2. Marks' BY <1>2 DEF V!Skip, V!Winners, Pictures, Marks, V!None
  <2> QED BY <2>1, <2>2
<1>3. CASE V!PlayerLogic
  <2>0. /\ turn \in playing /\ turn \in active /\ turn \in V!Players
        /\ turn' = turn + 1 /\ UNCHANGED <<game, phase, playing, winner>>
    BY <1>3 DEF V!PlayerLogic, Pictures
  <2>1. CASE V!FadeOut(turn)
    <3>0. /\ active' \subseteq active
          /\ \/ cloaked' = cloaked /\ hidden' = hidden
             \/ cloaked' = cloaked \ {turn} /\ hidden' = hidden \ {turn}
          /\ target' = target \/ target' = [target EXCEPT ![turn] = V!None]
          /\ fade' \in [V!Players -> Int]
          /\ \A p \in V!Players \ {turn} : fade'[p] = fade[p]
          /\ UNCHANGED revived
          /\ fade'[turn] > 0 => target' = [target EXCEPT ![turn] = V!None]
          /\ phase = "game" /\ fade'[turn] = 0 => turn \notin active'
      <4>1. fade[turn] \in Int /\ fade[turn] < 0 BY <2>0, <2>1 DEF V!FadeOut, Pictures
      <4>2. CASE fade[turn] < -1
        <5>1. fade' = [fade EXCEPT ![turn] = fade[turn] + 1]
              /\ UNCHANGED <<active, cloaked, hidden, target, revived>>
          BY <4>2, <2>1 DEF V!FadeOut
        <5>2. fade[turn] + 1 \in Int /\ fade[turn] + 1 < 0 BY <4>1, <4>2
        <5> QED BY <2>0, <5>1, <5>2 DEF Pictures
      <4>3. CASE ~ fade[turn] < -1
        <5>1. CASE game.respawn /\ winner = V!None
          <6>1. /\ fade' = [fade EXCEPT ![turn] = 1] /\ UNCHANGED active
                /\ cloaked' = cloaked \ {turn} /\ hidden' = hidden \ {turn}
                /\ target' = [target EXCEPT ![turn] = V!None] /\ UNCHANGED revived
            BY <4>3, <5>1, <2>1 DEF V!FadeOut
          <6> QED BY <2>0, <5>1, <6>1 DEF Pictures
        <5>2. CASE ~ (game.respawn /\ winner = V!None)
          <6>1. /\ fade' = [fade EXCEPT ![turn] = 0] /\ active' = active \ {turn}
                /\ cloaked' = cloaked \ {turn} /\ hidden' = hidden \ {turn}
                /\ UNCHANGED <<target, revived>>
            BY <4>3, <5>2, <2>1 DEF V!FadeOut
          <6> QED BY <2>0, <5>2, <6>1 DEF Pictures
        <5> QED BY <5>1, <5>2
      <4> QED BY <4>2, <4>3
    <3>1. target' \in [V!Players -> V!Players \cup {V!None}]
      BY <2>0, <3>0 DEF Pictures
    <3>7. active' \subseteq playing /\ cloaked' \subseteq V!Players /\ hidden' \subseteq V!Players
      BY <3>0 DEF Pictures
    <3>8. turn' \in {V!None} \cup (0 .. NumPlayers) BY <2>0
    <3>9. fade' \in [V!Players -> Int] BY <3>0
    <3>2. Pictures' BY ONLY <2>0, <3>1, <3>7, <3>8, <3>9, Pictures DEF Pictures
    <3>3. (\A p \in V!Players : fade[p] > 0 => target[p] = V!None)'
      BY <2>0, <3>0 DEF Pictures, Marks
    <3>4. (turn # V!None => hidden \subseteq cloaked)'
      <4>1. hidden \subseteq cloaked BY <2>0 DEF Marks, V!None
      <4> QED BY <3>0, <4>1
    <3>5. ASSUME phase' = "game", NEW v \in active' \ revived', (turn' = V!None \/ v < turn') /\ fade'[v] = 0
          PROVE  target'[v] \notin hidden'
      <4>1. v # turn /\ v \in V!Players /\ v \in active \ revived /\ phase = "game"
        BY <2>0, <3>0, <3>5 DEF Pictures
      <4>2. fade[v] = 0 /\ target'[v] = target[v]
        BY <3>0, <3>5, <4>1 DEF Pictures
      <4>3. v < turn BY <2>0, <3>5, <4>1, NumberOfPlayers DEF V!None
      <4> QED BY <3>0, <4>1, <4>2, <4>3 DEF Marks
    <3>6. Marks' BY <3>3, <3>4, <3>5 DEF Marks
    <3> QED BY <3>2, <3>6
  <2>2. CASE V!FadeIn(turn)
    <3>1. Pictures' BY <2>0, <2>2 DEF V!FadeIn, Pictures
    <3>2. Marks' BY <2>0, <2>2 DEF V!FadeIn, Pictures, Marks, V!None
    <3> QED BY <3>1, <3>2
  <2>3. CASE V!Move(turn)
    <3>0. /\ fade[turn] = 0 /\ UNCHANGED <<active, fade>> /\ hidden' = hidden \cap cloaked'
          /\ cloaked' \subseteq cloaked /\ revived' = revived \ {turn}
      BY <2>3 DEF V!Move
    <3>1. PICK q \in {V!None} \cup V!Targets(turn) : target' = [target EXCEPT ![turn] = q]
      BY <2>3 DEF V!Move
    <3>2. q \in V!Players \cup {V!None} /\ q \notin cloaked BY DEF V!Targets, Pictures, V!None
    <3>3. Pictures' BY <2>0, <3>0, <3>1, <3>2 DEF Pictures
    <3>4. Marks' BY <2>0, <3>0, <3>1, <3>2 DEF Pictures, Marks, V!None
    <3> QED BY <3>3, <3>4
  <2>4. CASE V!Die(turn)
    <3>1. Pictures' BY <2>0, <2>4 DEF V!Die, Pictures
    <3>2. Marks' BY <2>0, <2>4 DEF V!Die, Pictures, Marks, V!None
    <3> QED BY <3>1, <3>2
  <2> QED BY <1>3, <2>1, <2>2, <2>3, <2>4 DEF V!PlayerLogic
<1>4. CASE V!EndTick
  <2>1. Pictures' BY <1>4 DEF V!EndTick, V!Winners, Pictures, V!None
  <2>2. Marks' BY <1>4 DEF V!EndTick, V!Winners, Pictures, Marks, V!None
  <2> QED BY <2>1, <2>2
<1>5. ASSUME NEW q \in V!Players, V!Kill(q) \/ V!TakeCloak(q) \/ V!Remove(q) PROVE ViewsInv'
  <2>1. Pictures' BY <1>5 DEF V!Kill, V!TakeCloak, V!Remove, Pictures, V!None
  <2>2. Marks' BY <1>5 DEF V!Kill, V!TakeCloak, V!Remove, Pictures, Marks, V!None
  <2> QED BY <2>1, <2>2
<1>6. ASSUME NEW client \in game.clients, V!Chat(client) PROVE ViewsInv'
  <2>1. /\ active' \subseteq active \cup client /\ cloaked' \subseteq cloaked \cup client
        /\ client \subseteq playing /\ turn = V!None /\ active' \ active \subseteq revived'
        /\ revived \subseteq revived'
        /\ UNCHANGED <<game, phase, turn, playing, fade, target, winner, hidden>>
    BY <1>6, ChatCopies
  <2>2. Pictures' BY <2>1 DEF Pictures
  <2>3. Marks' BY <2>1 DEF Marks, V!None
  <2> QED BY <2>2, <2>3
<1> QED BY <1>1, <1>2, <1>3, <1>4, <1>5, <1>6 DEF V!Next

-----------------------------------------------------------------------------
(* The parts of the screen.                                                 *)

LEMMA FewerIn ==
  ASSUME NEW S, NEW T, IsFiniteSet(S), T \subseteq S, NEW e, e \in S, e \notin T
  PROVE  Cardinality(T) < Cardinality(S) /\ Cardinality(T) \in Nat /\ Cardinality(S) \in Nat
  BY FS_Subset, FS_CardinalityType

LEMMA FinitelyMany == ViewsInv => IsFiniteSet(V!Here) /\ V!Here \subseteq V!Players
<1> SUFFICES ASSUME ViewsInv PROVE IsFiniteSet(V!Here) /\ V!Here \subseteq V!Players
  OBVIOUS
<1>1. V!Here \subseteq V!Players BY ViewsAssumption DEF ViewsInv, Pictures, V!Here
<1>2. 0 \in Int /\ NumPlayers - 1 \in Int BY NumberOfPlayers
<1>3. IsFiniteSet(V!Players) BY <1>2, FS_Interval
<1> QED BY <1>1, <1>3, FS_Subset

\* Of up to four players at one machine each has a port of its own.
LEMMA PortsDiffer ==
  ASSUME ViewsInv, V!Cardinality(V!Here) \in 2 .. 4, NEW p \in V!Here, NEW q \in V!Here, p < q
  PROVE  /\ V!Port(p) \in 0 .. 3 /\ V!Port(q) \in 0 .. 3 /\ V!Port(p) < V!Port(q)
         /\ V!Cardinality(V!Here) = 2 => V!Port(q) = 1
<1> DEFINE here == V!Here
           below == {r \in here : r < p}
           upTo == {r \in here : r < q}
<1>1. IsFiniteSet(here) /\ here \subseteq V!Players BY FinitelyMany
<1>2. below \subseteq upTo /\ p \in upTo /\ p \notin below
  <2>1. p \in Int /\ q \in Int /\ \A r \in here : r \in Int BY <1>1, NumberOfPlayers
  <2>2. \A r \in here : r < p => r < q BY <2>1
  <2>3. ~ p < p BY <2>1
  <2> HIDE DEF here
  <2> QED BY <2>2, <2>3 DEF here
<1>3. upTo \subseteq here /\ q \in here /\ q \notin upTo BY <1>1, NumberOfPlayers
<1>4. V!Cardinality(here) = Cardinality(here) /\ V!Cardinality(below) = Cardinality(below)
      /\ V!Cardinality(upTo) = Cardinality(upTo)
  BY SameCardinality
<1>5. Cardinality(here) \in 2 .. 4 BY <1>4
<1>6. IsFiniteSet(upTo) BY <1>1, <1>3, FS_Subset
<1>7. /\ V!Port(p) = IF Cardinality(below) < 4 THEN Cardinality(below) ELSE V!None
      /\ V!Port(q) = IF Cardinality(upTo) < 4 THEN Cardinality(upTo) ELSE V!None
  BY <1>4, <1>5 DEF V!Port
<1> HIDE DEF here, below, upTo
<1>8. Cardinality(below) < Cardinality(upTo) /\ Cardinality(below) \in Nat /\ Cardinality(upTo) \in Nat
  BY ONLY <1>2, <1>6, FewerIn
<1>9. Cardinality(upTo) < Cardinality(here)
  BY ONLY <1>1, <1>3, FewerIn
<1> QED BY <1>4, <1>5, <1>7, <1>8, <1>9 DEF here

\* So has each a part of the screen of its own.
LEMMA PlacesDiffer ==
  ASSUME ViewsInv, V!Cardinality(V!Here) \in 1 .. 4, NEW p \in V!Here, NEW q \in V!Here, p # q,
         NEW c \in V!Place(p)
  PROVE  c \notin V!Place(q) /\ V!Port(q) # c /\ V!Port(q) \in V!Quarters /\ c \in V!Quarters
<1>1. V!Here \subseteq V!Players BY ViewsAssumption DEF ViewsInv, Pictures, V!Here
<1>2. V!Cardinality(V!Here) \in 2 .. 4
  <2>1. V!Cardinality(V!Here) # 1
    <3>2. \A S : V!Cardinality(S) = Cardinality(S) BY SameCardinality
    <3> DEFINE H == V!Here
    <3>3. IsFiniteSet(H) BY FinitelyMany
    <3> HIDE DEF H
    <3>4. Cardinality(H) = 1 => \E one : H = {one} BY ONLY <3>3, FS_Singleton
    <3> QED BY <3>2, <3>4 DEF H
  <2> QED BY <2>1
<1>3. \/ p < q /\ V!Port(p) \in 0 .. 3 /\ V!Port(q) \in 0 .. 3 /\ V!Port(p) < V!Port(q)
         /\ (V!Cardinality(V!Here) = 2 => V!Port(q) = 1)
      \/ q < p /\ V!Port(p) \in 0 .. 3 /\ V!Port(q) \in 0 .. 3 /\ V!Port(q) < V!Port(p)
         /\ (V!Cardinality(V!Here) = 2 => V!Port(p) = 1)
  BY <1>1, <1>2, PortsDiffer
<1> QED BY <1>3 DEF V!Place, V!Quarters, V!None

LEMMA ViewsSplit == ViewsInv => V!SplitScreen
<1> SUFFICES ASSUME ViewsInv, phase = "game", turn = V!None, V!Cardinality(V!Here) \in 1 .. 4,
                    NEW p \in V!Here, NEW c \in V!Place(p)
             PROVE  IF p \in active THEN V!Shown(c) = p
                    ELSE active \cap V!Here # {} => V!Shown(c) = "empty"
  BY DEF V!SplitScreen
<1>1. V!Here \subseteq V!Players /\ active \subseteq V!Players /\ winner = V!None
  BY ViewsAssumption DEF ViewsInv, Pictures, V!Here
<1>2. V!Drawn = active \cap V!Here
  BY <1>1 DEF V!Drawn, V!Watched, V!None, V!Here
<1>3. {q \in V!Drawn : c \in V!Place(q)} = active \cap {p}
  BY <1>2, PlacesDiffer
<1>4. CASE p \in active
  BY <1>1, <1>3, <1>4 DEF V!Shown
<1>5. ASSUME p \notin active, NEW q \in active \cap V!Here PROVE V!Shown(c) = "empty"
  <2>1. V!Port(q) \in V!Quarters /\ V!Port(q) # V!None BY <1>5, PlacesDiffer DEF V!Quarters, V!None
  <2>2. \A r \in active : V!Port(r) # c
    BY <1>5, PlacesDiffer DEF V!Port, V!None, V!Place, V!Quarters
  <2>3. c \in V!Quarters BY <1>5, PlacesDiffer
  <2>4. c \in V!Empty BY <1>5, <2>1, <2>2, <2>3 DEF V!Empty
  <2> QED BY <1>3, <1>5, <2>4 DEF V!Shown
<1> QED BY <1>4, <1>5

LEMMA ViewsHide == ViewsInv => V!CloakHides
<1> SUFFICES ASSUME ViewsInv, phase = "game", turn = V!None, NEW v \in V!Drawn \cap V!Here,
                    NEW q \in hidden \cap cloaked, v # q, fade[v] = 0, v \notin revived
             PROVE  q \notin V!Seen(v)
  BY DEF V!CloakHides
<1>1. v \in active /\ V!Here # {} BY DEF V!Drawn, ViewsInv, Pictures
<1>2. target[v] # q BY <1>1 DEF ViewsInv, Marks
<1>3. V!Watched(game) = V!None BY <1>1 DEF V!Watched, V!Here
<1> QED BY <1>2, <1>3 DEF V!Seen, V!Pictured, V!Named, V!Marked, V!Spotted

(* pp2_game_setup, the rendering of the views and radars, and a tick of the *)
(* players' logic: up to four players at one machine have views of their    *)
(* own, each shows its player as long as he is in, and in none can another  *)
(* be made out who has been cloaked for a tick: whatever is killed, cloaked *)
(* or removed and whoever chats, in whatever order.  Who fades, and whom a  *)
(* chat has brought back into the game until he moves, may mark anybody.    *)
THEOREM EveryoneIsSeen == MCSpec => []EveryoneSees
<1>1. MCInit => ViewsInv BY ViewsInit DEF MCInit
<1>2. ViewsInv /\ [MCNext]_allVars => ViewsInv'
  <2> SUFFICES ASSUME ViewsInv, [MCNext]_allVars PROVE ViewsInv'
    OBVIOUS
  <2>1. V!Next \/ UNCHANGED viewVars
    BY DEF MCNext, Only, allVars
  <2>2. UNCHANGED viewVars => ViewsInv'
    BY DEF viewVars, ViewsInv, Pictures, Marks
  <2> QED BY <2>1, <2>2, ViewsStep
<1>3. ViewsInv => EveryoneSees BY ViewsSplit, ViewsHide DEF EveryoneSees
<1> QED BY <1>1, <1>2, <1>3, PTL DEF MCSpec

-----------------------------------------------------------------------------
(* Sequences that an element is taken out of, and folds from the left.      *)

LEMMA LeastOf ==
  ASSUME NEW S \in SUBSET Nat, S # {}
  PROVE  R!Least(S) \in S
<1>1. \E p \in S : \A q \in S : p <= q BY ONLY S \in SUBSET Nat, S # {}, LeastIn
<1> QED BY <1>1 DEF R!Least

LEMMA Removed ==
  ASSUME NEW X, NEW s \in Seq(X), NEW i \in DOMAIN s
  PROVE  /\ R!RemoveAt(s, i) \in Seq(X)
         /\ DOMAIN R!RemoveAt(s, i) = 1 .. (Len(s) - 1)
         /\ \A j \in DOMAIN R!RemoveAt(s, i) :
              R!RemoveAt(s, i)[j] = IF j < i THEN s[j] ELSE s[j + 1]
<1>1. Len(s) \in Nat /\ i \in 1 .. Len(s) OBVIOUS
<1> DEFINE f == SubSeq(s, 1, i - 1)
           g == SubSeq(s, i + 1, Len(s))
<1>2. f \in Seq(X) /\ Len(f) = i - 1 /\ \A j \in 1 .. (i - 1) : f[j] = s[j]
  BY <1>1
<1>3. g \in Seq(X) /\ Len(g) = Len(s) - i /\ \A j \in 1 .. (Len(s) - i) : g[j] = s[i + j]
  BY <1>1
<1> HIDE DEF f, g
<1> DEFINE r == f \o g
<1>4. r \in Seq(X) /\ Len(r) = Len(s) - 1 BY <1>1, <1>2, <1>3
<1>5. \A j \in 1 .. (Len(s) - 1) : r[j] = IF j < i THEN s[j] ELSE s[j + 1]
  BY <1>1, <1>2, <1>3, SMTT(30)
<1>6. DOMAIN r = 1 .. (Len(s) - 1) BY <1>4
<1>7. R!RemoveAt(s, i) = r BY DEF R!RemoveAt, f, g
<1> QED BY <1>4, <1>5, <1>6, <1>7

\* What is left is all but what was taken out, where that was there once.
LEMMA RemovedAll ==
  ASSUME NEW X, NEW s \in Seq(X), NEW i \in DOMAIN s, \A j, k \in DOMAIN s : j # k => s[j] # s[k]
  PROVE  LET r == R!RemoveAt(s, i) IN
           /\ \A j, k \in DOMAIN r : j # k => r[j] # r[k]
           /\ {r[j] : j \in DOMAIN r} = {s[j] : j \in DOMAIN s} \ {s[i]}
<1> DEFINE r == R!RemoveAt(s, i)
           n == Len(s)
<1>1. /\ n \in Nat /\ DOMAIN s = 1 .. n /\ i \in 1 .. n /\ DOMAIN r = 1 .. (n - 1)
      /\ \A j \in 1 .. (n - 1) : r[j] = IF j < i THEN s[j] ELSE s[j + 1]
  BY Removed
<1> HIDE DEF r, n
<1>2. \A j, k \in 1 .. n : j # k => s[j] # s[k] BY <1>1
<1>3. ASSUME NEW j \in 1 .. (n - 1), NEW k \in 1 .. (n - 1), j # k PROVE r[j] # r[k]
  <2> DEFINE a == IF j < i THEN j ELSE j + 1
             b == IF k < i THEN k ELSE k + 1
  <2>1. a \in 1 .. n /\ b \in 1 .. n /\ a # b BY <1>1, <1>3
  <2>2. r[j] = s[a] /\ r[k] = s[b] BY <1>1
  <2> HIDE DEF a, b
  <2> QED BY <1>2, <2>1, <2>2
<1>4. ASSUME NEW j \in 1 .. (n - 1) PROVE r[j] # s[i] /\ \E k \in 1 .. n : r[j] = s[k]
  <2> DEFINE a == IF j < i THEN j ELSE j + 1
  <2>1. a \in 1 .. n /\ a # i BY <1>1
  <2>2. r[j] = s[a] BY <1>1
  <2> HIDE DEF a
  <2>3. i \in 1 .. n BY <1>1
  <2>4. s[a] # s[i] BY <1>2, <2>1, <2>3
  <2> QED BY <2>1, <2>2, <2>4
<1>5. ASSUME NEW k \in 1 .. n, s[k] # s[i] PROVE \E j \in 1 .. (n - 1) : r[j] = s[k]
  <2> DEFINE q == IF k < i THEN k ELSE k - 1
  <2>1. k # i BY <1>5
  <2>2. q \in 1 .. (n - 1) /\ k = IF q < i THEN q ELSE q + 1 BY <1>1, <2>1
  <2>3. r[q] = s[k] BY <1>1, <2>2
  <2> HIDE DEF q
  <2> QED BY <2>2, <2>3
<1>6. {r[j] : j \in DOMAIN r} = {s[j] : j \in DOMAIN s} \ {s[i]}
  <2> DEFINE D == 1 .. (n - 1)
             E == 1 .. n
  <2>1. DOMAIN r = D /\ DOMAIN s = E BY <1>1
  <2>2. \A j \in D : r[j] # s[i] /\ \E k \in E : r[j] = s[k] BY <1>4
  <2>3. \A k \in E : s[k] # s[i] => \E j \in D : r[j] = s[k] BY <1>5
  <2> HIDE DEF D, E
  <2>4. {r[j] : j \in D} = {s[j] : j \in E} \ {s[i]} BY ONLY <2>2, <2>3
  <2> QED BY <2>1, <2>4
<1>7. \A j, k \in DOMAIN r : j # k => r[j] # r[k] BY <1>1, <1>3
<1> QED BY <1>6, <1>7 DEF r

\* A fold from the left over n elements is made, and what its steps keep holds of it.
Folded(h, n, X, base, F) ==
  /\ h[{}] = base
  /\ \A T \in SUBSET (1 .. n) : T # {} /\ h[T \ {R!Max(T)}] \in X => h[T] = F[<<h[T \ {R!Max(T)}], R!Max(T)>>]

LEMMA GreatestOf ==
  ASSUME NEW n \in Nat
  PROVE  IsFiniteSet(1 .. n) /\ \A T \in SUBSET (1 .. n) : T # {} => R!Max(T) \in T
<1>1. IsFiniteSet(1 .. n)
  <2>1. 1 \in Int /\ n \in Int OBVIOUS
  <2> QED BY ONLY <2>1, FS_Interval
<1>2. ASSUME NEW T \in SUBSET (1 .. n), T # {} PROVE R!Max(T) \in T
  <2>1. \E p \in T : \A q \in T : p >= q BY <1>2, GreatestIn
  <2> QED BY <2>1 DEF R!Max
<1> QED BY <1>1, <1>2

LEMMA FoldMade ==
  ASSUME NEW n \in Nat, NEW X, NEW base \in X, NEW F \in [X \X (1 .. n) -> X]
  PROVE  \E g \in [SUBSET (1 .. n) -> X] : Folded(g, n, X, base, F)
<1> DEFINE S == 1 .. n
           c == [T \in SUBSET S |-> R!Max(T)]
           G == [pair \in (SUBSET S) \X X |->
                   IF pair[1] = {} THEN base ELSE F[<<pair[2], R!Max(pair[1])>>]]
<1>1. IsFiniteSet(S) BY GreatestOf
<1>2. \A T \in SUBSET S : T # {} => R!Max(T) \in T BY GreatestOf
<1>3. G \in [(SUBSET S) \X X -> X]
  <2> SUFFICES ASSUME NEW T \in SUBSET S, NEW v \in X, T # {} PROVE F[<<v, R!Max(T)>>] \in X
    OBVIOUS
  <2>1. R!Max(T) \in 1 .. n BY <1>2
  <2> QED BY <2>1
<1>4. PICK g : Made(g, S, X, base, c, G)
  <2>1. \A T \in SUBSET S : T # {} => c[T] \in T BY <1>2
  <2>2. base \in X OBVIOUS
  <2> HIDE DEF S, c, G
  <2> QED BY ONLY <1>1, <1>3, <2>1, <2>2, MadeExists
<1>5. g \in [SUBSET S -> X] /\ g[{}] = base BY <1>4 DEF Made
<1>6. ASSUME NEW T \in SUBSET S, T # {} PROVE g[T] = F[<<g[T \ {R!Max(T)}], R!Max(T)>>]
  <2>1. g[T] = G[<<T, g[T \ {c[T]}]>>]
    <3> HIDE DEF S, c, G
    <3> QED BY <1>4, <1>6 DEF Made
  <2>2. c[T] = R!Max(T) OBVIOUS
  <2>3. g[T \ {R!Max(T)}] \in X
    <3>1. T \ {R!Max(T)} \in SUBSET S OBVIOUS
    <3> HIDE DEF S, c, G
    <3> QED BY <1>5, <3>1
  <2> QED BY <1>6, <2>1, <2>2, <2>3
<1> HIDE DEF c, G
<1> QED BY <1>5, <1>6 DEF Folded

LEMMA FoldKeeps ==
  ASSUME NEW n \in Nat, NEW X, NEW base \in X, NEW F \in [X \X (1 .. n) -> X],
         NEW h, Folded(h, n, X, base, F), NEW Q, <<{}, base>> \in Q,
         \A T \in SUBSET (1 .. n), v \in X :
           T # {} /\ <<T \ {R!Max(T)}, v>> \in Q => <<T, F[<<v, R!Max(T)>>]>> \in Q
  PROVE  h[1 .. n] \in X /\ <<1 .. n, h[1 .. n]>> \in Q
<1> DEFINE S == 1 .. n
           c == [T \in SUBSET S |-> R!Max(T)]
           A == {T \in SUBSET S : h[T] \in X /\ <<T, h[T]>> \in Q}
<1>1. IsFiniteSet(S) BY GreatestOf
<1>2. \A T \in SUBSET S : T # {} => c[T] \in T BY GreatestOf
<1>3. {} \in A BY DEF Folded
<1>4. ASSUME NEW T \in SUBSET S, T # {}, T \ {c[T]} \in A PROVE T \in A
  <2> DEFINE t == R!Max(T)
             v == h[T \ {t}]
  <2>1. t \in T /\ t \in 1 .. n BY <1>2, <1>4
  <2>2. v \in X /\ <<T \ {t}, v>> \in Q BY <1>4
  <2>3. h[T] = F[<<v, t>>] BY <1>4, <2>2 DEF Folded
  <2>4. F[<<v, t>>] \in X BY <2>1, <2>2
  <2>5. <<T, F[<<v, t>>]>> \in Q BY <1>4, <2>2
  <2> QED BY <2>3, <2>4, <2>5
<1>5. S \in A
  <2> HIDE DEF S, c, A
  <2> QED BY <1>1, <1>2, <1>3, <1>4, SubsetSteps
<1> QED BY <1>5

-----------------------------------------------------------------------------
(* The bitmaps in memory.                                                   *)

Places  == Bitmaps \cup {R!Freed}
Pixels  == [open : BOOLEAN, obj : Nat, on : Nat]
Atlas   == [id : Nat, member : Seq(Places), page : BOOLEAN]
MemType == {m \in [bmp : [Bitmaps -> Pixels], entry : Seq(Places), live : SUBSET Nat, atlas : Seq(Atlas),
                   crowded : SUBSET Bitmaps, blank : SUBSET Bitmaps, stale : BOOLEAN] : IsFiniteSet(m.live)}

Entries(m)    == {m.entry[i] : i \in DOMAIN m.entry}
Members(m, k) == {m.atlas[k].member[i] : i \in DOMAIN m.atlas[k].member}
Ids(m)        == {m.atlas[k].id : k \in DOMAIN m.atlas}

\* What is open is in the table, once, or one of the exceptions.
Table(m) ==
  /\ \A i, j \in DOMAIN m.entry : i # j => m.entry[i] # m.entry[j]
  /\ R!Open(m) = Entries(m) \cup m.crowded \cup m.blank
  /\ Entries(m) \cap (m.crowded \cup m.blank) = {}
  /\ \A b \in Bitmaps \ R!Open(m) : m.bmp[b] = R!Closed
  /\ \A b \in m.blank : m.bmp[b].obj = 0

\* The objects in memory are those that bitmaps refer to.
Held(m) ==
  /\ 0 \notin m.live
  /\ \A b \in Bitmaps : m.bmp[b].obj # 0 => m.bmp[b].obj \in m.live
  /\ \A o \in m.live : \E b \in Bitmaps : m.bmp[b].obj = o

\* What is in the table has an object of its own, or none while it is given up.
Filled(m) == \A b \in Entries(m) : m.bmp[b].obj # 0 /\ \A c \in Bitmaps \ {b} : m.bmp[c].obj # m.bmp[b].obj
Voided(m) == \A b \in Entries(m) : m.bmp[b].obj = 0 /\ m.bmp[b].on = 0

\* The atlases: on them are tiles that are open, but for the levels of lf; who
\* is on a page is a tile on one of them.
Bound(m, lf) ==
  /\ 0 \notin Ids(m) /\ \A k, l \in DOMAIN m.atlas : k # l => m.atlas[k].id # m.atlas[l].id
  /\ \A k \in DOMAIN m.atlas : /\ Members(m, k) \subseteq (Tiles \cap R!Open(m)) \cup {R!Freed}
                               /\ R!Freed \in Members(m, k) => m.atlas[k].id \in lf
  /\ \A b \in Entries(m) : m.bmp[b].on # 0 => b \in Tiles /\ m.bmp[b].on \in Ids(m)
Pages(m) == \A k \in DOMAIN m.atlas : m.atlas[k].page

LEMMA Places_ ==
  /\ IsFiniteSet(Bitmaps) /\ Tiles \subseteq Bitmaps /\ R!Freed \notin Bitmaps
  /\ MaxEntries \in Nat /\ Room \in Nat
BY ResourcesAssumption

\* A new object is none of those in memory, whichever number it gets.
LEMMA FreshObject ==
  ASSUME NEW S \in SUBSET Nat, IsFiniteSet(S)
  PROVE  R!Unused(S) \in Nat \ S /\ R!Unused(S) # 0
<1> DEFINE n == Cardinality(S)
           U == 1 .. (n + 1)
<1>1. n \in Nat BY FS_CardinalityType
<1>2. IsFiniteSet(U) /\ Cardinality(U) = n + 1
  <2>1. 1 \in Int /\ n + 1 \in Int BY <1>1
  <2>2. IsFiniteSet(U) /\ Cardinality(U) = IF 1 > n + 1 THEN 0 ELSE (n + 1) - 1 + 1
    BY ONLY <2>1, FS_Interval
  <2> QED BY <1>1, <2>2
<1>3. U \ S # {}
  <2>1. SUFFICES ASSUME U \subseteq S PROVE FALSE
    OBVIOUS
  <2>2. Cardinality(U) <= Cardinality(S) BY <2>1, FS_Subset
  <2> QED BY <1>1, <1>2, <2>2
<1>4. R!Unused(S) = CHOOSE i \in U \ S : TRUE BY DEF R!Unused, R!Cardinality, Cardinality
<1>5. U \subseteq Nat \ {0} BY <1>1
<1> HIDE DEF U
<1> QED BY <1>3, <1>4, <1>5

\* What the handler of a resource makes.
LEMMA ObjectMade ==
  ASSUME NEW m \in MemType, NEW b \in Bitmaps
  PROVE  \E o \in Nat \ m.live :
           /\ o # 0
           /\ R!NewObject(m, b) = [m EXCEPT !.bmp = [@ EXCEPT ![b] = [open |-> TRUE, obj |-> o, on |-> 0]],
                                            !.live = @ \cup {o}]
           /\ R!NewObject(m, b) \in MemType
<1> DEFINE o == R!Unused(m.live)
           new == [open |-> TRUE, obj |-> o, on |-> 0]
           n == [m EXCEPT !.bmp = [@ EXCEPT ![b] = new], !.live = @ \cup {o}]
<1>1. m.live \in SUBSET Nat /\ IsFiniteSet(m.live) BY DEF MemType
<1>2. o \in Nat \ m.live /\ o # 0 BY <1>1, FreshObject
<1>3. R!NewObject(m, b) = n BY DEF R!NewObject, MemType
<1>4. new \in Pixels BY <1>2 DEF Pixels
<1>5. IsFiniteSet(m.live \cup {o}) BY <1>1, FS_AddElement
<1> HIDE DEF o, new
<1>6. n \in MemType BY <1>1, <1>2, <1>4, <1>5 DEF MemType
<1> QED BY <1>2, <1>3, <1>6 DEF new

Kept(m, lf) == Table(m) /\ Held(m) /\ Filled(m) /\ Bound(m, lf)

\* A bitmap that is loaded: with an object of its own, in the table or not.
LEMMA LoadMakes ==
  ASSUME NEW m \in MemType, NEW b \in Bitmaps
  PROVE  \E o \in Nat \ m.live : LET n == R!Load(m, b) IN
           /\ n \in MemType /\ o # 0 /\ n.live = m.live \cup {o}
           /\ n.bmp = [m.bmp EXCEPT ![b] = [open |-> TRUE, obj |-> o, on |-> 0]]
           /\ n.atlas = m.atlas /\ n.stale = m.stale /\ n.blank = m.blank
           /\ \/ n.entry = Append(m.entry, b) /\ n.crowded = m.crowded
              \/ n.entry = m.entry /\ n.crowded = m.crowded \cup {b}
<1>1. PICK o \in Nat \ m.live :
        /\ o # 0
        /\ R!NewObject(m, b) = [m EXCEPT !.bmp = [@ EXCEPT ![b] = [open |-> TRUE, obj |-> o, on |-> 0]],
                                         !.live = @ \cup {o}]
        /\ R!NewObject(m, b) \in MemType
  BY ObjectMade
<1> DEFINE new == [open |-> TRUE, obj |-> o, on |-> 0]
           k == R!NewObject(m, b)
           n == R!Load(m, b)
<1>2. /\ k \in MemType /\ k.live = m.live \cup {o} /\ k.bmp = [m.bmp EXCEPT ![b] = new]
      /\ k.atlas = m.atlas /\ k.stale = m.stale /\ k.blank = m.blank /\ k.entry = m.entry
      /\ k.crowded = m.crowded
  BY <1>1 DEF MemType
<1>3. n = IF Len(k.entry) < MaxEntries THEN [k EXCEPT !.entry = Append(@, b)]
          ELSE [k EXCEPT !.crowded = @ \cup {b}]
  BY DEF R!Load, R!AddResource
<1> HIDE DEF k, n, new
<1>4. Append(k.entry, b) \in Seq(Places) BY <1>2 DEF MemType, Places
<1>5. n \in MemType BY <1>2, <1>3, <1>4 DEF MemType
<1>6. /\ n.live = k.live /\ n.bmp = k.bmp /\ n.atlas = k.atlas /\ n.stale = k.stale /\ n.blank = k.blank
      /\ \/ n.entry = Append(k.entry, b) /\ n.crowded = k.crowded
         \/ n.entry = k.entry /\ n.crowded = k.crowded \cup {b}
  BY <1>2, <1>3 DEF MemType
<1> QED BY <1>1, <1>2, <1>5, <1>6 DEF n, new

LEMMA Entered ==
  ASSUME NEW X, NEW s \in Seq(X), NEW b \in X
  PROVE  /\ DOMAIN Append(s, b) = DOMAIN s \cup {Len(s) + 1} /\ Len(s) + 1 \notin DOMAIN s
         /\ Append(s, b)[Len(s) + 1] = b /\ \A i \in DOMAIN s : Append(s, b)[i] = s[i]
  OBVIOUS

LEMMA LoadKeeps ==
  ASSUME NEW m \in MemType, NEW b \in Bitmaps, ~m.bmp[b].open, NEW lf, Kept(m, lf)
  PROVE  LET n == R!Load(m, b) IN
           /\ n \in MemType /\ Kept(n, lf) /\ R!Open(n) = R!Open(m) \cup {b}
           /\ n.atlas = m.atlas /\ n.stale = m.stale
<1> DEFINE n == R!Load(m, b)
<1>1. PICK o \in Nat \ m.live :
           /\ n \in MemType /\ o # 0 /\ n.live = m.live \cup {o}
           /\ n.bmp = [m.bmp EXCEPT ![b] = [open |-> TRUE, obj |-> o, on |-> 0]]
           /\ n.atlas = m.atlas /\ n.stale = m.stale /\ n.blank = m.blank
           /\ \/ n.entry = Append(m.entry, b) /\ n.crowded = m.crowded
              \/ n.entry = m.entry /\ n.crowded = m.crowded \cup {b}
  BY LoadMakes
<1> HIDE DEF n
<1>2. /\ m.bmp \in [Bitmaps -> Pixels] /\ m.entry \in Seq(Places) /\ m.crowded \in SUBSET Bitmaps
      /\ m.blank \in SUBSET Bitmaps /\ b \in Places
  BY DEF MemType, Places
<1>3. /\ n.bmp[b].open = TRUE /\ n.bmp[b].obj = o /\ n.bmp[b].on = 0
      /\ \A c \in Bitmaps : c # b => n.bmp[c] = m.bmp[c]
  BY <1>1, <1>2
<1>4. R!Open(n) = R!Open(m) \cup {b} /\ b \notin R!Open(m) BY <1>2, <1>3 DEF R!Open
<1>5. m.bmp[b].obj = 0 BY <1>4 DEF Kept, Table, R!Closed
<1>6. b \notin Entries(m) /\ b \notin m.crowded /\ b \notin m.blank BY <1>4 DEF Kept, Table
<1>7. \A c \in Bitmaps : m.bmp[c].obj # o
  <2>1. \A c \in Bitmaps : m.bmp[c].obj # 0 => m.bmp[c].obj \in m.live BY DEF Kept, Held
  <2> QED BY <1>1, <2>1
<1>8. /\ Entries(n) \in {Entries(m), Entries(m) \cup {b}}
      /\ Entries(n) \cup n.crowded = Entries(m) \cup m.crowded \cup {b}
      /\ Entries(n) \cap n.crowded = Entries(m) \cap m.crowded
      /\ \A i, j \in DOMAIN n.entry : i # j => n.entry[i] # n.entry[j]
  <2>1. \A i, j \in DOMAIN m.entry : i # j => m.entry[i] # m.entry[j] BY DEF Kept, Table
  <2>2. CASE n.entry = m.entry /\ n.crowded = m.crowded \cup {b}
    BY <2>1, <2>2, <1>6 DEF Entries
  <2>3. CASE n.entry = Append(m.entry, b) /\ n.crowded = m.crowded
    <3> DEFINE D == DOMAIN m.entry
               l == Len(m.entry) + 1
    <3>1. /\ DOMAIN n.entry = D \cup {l} /\ l \notin D
          /\ n.entry[l] = b /\ \A i \in D : n.entry[i] = m.entry[i]
      BY <1>2, <2>3, Entered
    <3> HIDE DEF D, l
    <3>2. Entries(m) = {m.entry[i] : i \in D} BY DEF Entries, D
    <3>3. Entries(n) = Entries(m) \cup {b} BY <3>1, <3>2 DEF Entries
    <3>4. \A i \in D : m.entry[i] # b BY <1>6, <3>2
    <3>5. \A i, j \in DOMAIN n.entry : i # j => n.entry[i] # n.entry[j]
      BY <2>1, <3>1, <3>4 DEF D
    <3> QED BY <1>6, <2>3, <3>3, <3>5
  <2> QED BY <1>1, <2>2, <2>3
<1>9. Table(n)
  <2>1. R!Open(n) = Entries(n) \cup n.crowded \cup n.blank BY <1>1, <1>4, <1>8 DEF Kept, Table
  <2>2. Entries(n) \cap (n.crowded \cup n.blank) = {} BY <1>1, <1>6, <1>8 DEF Kept, Table
  <2>3. \A c \in Bitmaps \ R!Open(n) : n.bmp[c] = R!Closed BY <1>3, <1>4 DEF Kept, Table
  <2>4. \A c \in n.blank : n.bmp[c].obj = 0 BY <1>1, <1>2, <1>3, <1>6 DEF Kept, Table
  <2> QED BY <1>8, <2>1, <2>2, <2>3, <2>4 DEF Table
<1>10. Held(n)
  <2>1. 0 \notin n.live BY <1>1 DEF Kept, Held
  <2>2. \A c \in Bitmaps : n.bmp[c].obj # 0 => n.bmp[c].obj \in n.live BY <1>1, <1>3 DEF Kept, Held
  <2>3. ASSUME NEW q \in n.live PROVE \E c \in Bitmaps : n.bmp[c].obj = q
    <3>1. CASE q = o BY <1>3, <3>1
    <3>2. CASE q # o
      <4>1. PICK c \in Bitmaps : m.bmp[c].obj = q BY <1>1, <3>2, <2>3 DEF Kept, Held
      <4>2. c # b BY <4>1, <1>5, <1>1, <2>1, <2>3
      <4> QED BY <4>1, <4>2, <1>3
    <3> QED BY <3>1, <3>2
  <2> QED BY <2>1, <2>2, <2>3 DEF Held
<1>11. Filled(n)
  <2> SUFFICES ASSUME NEW e \in Entries(n)
               PROVE n.bmp[e].obj # 0 /\ \A c \in Bitmaps \ {e} : n.bmp[c].obj # n.bmp[e].obj
    BY DEF Filled
  <2>1. CASE e = b BY <1>1, <1>3, <1>7, <2>1
  <2>2. CASE e # b
    <3>1. e \in Entries(m) /\ e \in Bitmaps
      BY <2>2, <1>2, <1>8 DEF Kept, Table, R!Open
    <3>2. m.bmp[e].obj # 0 /\ \A c \in Bitmaps \ {e} : m.bmp[c].obj # m.bmp[e].obj
      BY <3>1 DEF Kept, Filled
    <3>3. n.bmp[e] = m.bmp[e] BY <1>3, <2>2, <3>1
    <3>4. ASSUME NEW c \in Bitmaps \ {e} PROVE n.bmp[c].obj # n.bmp[e].obj
      <4>1. CASE c = b BY <4>1, <1>3, <1>7, <3>1, <3>3
      <4>2. CASE c # b BY <4>2, <1>3, <3>2, <3>3
      <4> QED BY <4>1, <4>2
    <3> QED BY <3>2, <3>3, <3>4
  <2> QED BY <2>1, <2>2
<1>12. Bound(n, lf)
  <2>1. Ids(n) = Ids(m) /\ \A k : Members(n, k) = Members(m, k) BY <1>1 DEF Ids, Members
  <2>2. ASSUME NEW e \in Entries(n), n.bmp[e].on # 0 PROVE e \in Tiles /\ n.bmp[e].on \in Ids(n)
    <3>1. e # b BY <2>2, <1>3
    <3>2. e \in Entries(m) /\ e \in Bitmaps BY <3>1, <1>2, <1>8 DEF Kept, Table, R!Open
    <3>3. n.bmp[e] = m.bmp[e] BY <1>3, <3>1, <3>2
    <3> QED BY <2>1, <2>2, <3>2, <3>3 DEF Kept, Bound
  <2>3. \A k \in DOMAIN n.atlas : /\ Members(n, k) \subseteq (Tiles \cap R!Open(n)) \cup {R!Freed}
                                  /\ R!Freed \in Members(n, k) => n.atlas[k].id \in lf
    BY <1>1, <1>4, <2>1 DEF Kept, Bound
  <2>4. 0 \notin Ids(n) /\ \A k, l \in DOMAIN n.atlas : k # l => n.atlas[k].id # n.atlas[l].id
    BY <1>1, <2>1 DEF Kept, Bound
  <2> QED BY <2>2, <2>3, <2>4 DEF Bound
<1> QED BY <1>1, <1>4, <1>9, <1>10, <1>11, <1>12 DEF n, Kept

\* An object goes, and perhaps an entry.
LEMMA ReleaseTyped ==
  ASSUME NEW m \in MemType, NEW o
  PROVE  LET n == R!Release(m, o) IN
           n \in MemType /\ n.atlas = m.atlas /\ n.stale = m.stale
<1>0. /\ m.entry \in Seq(Places) /\ m.bmp \in [Bitmaps -> Pixels] /\ m.live \in SUBSET Nat
      /\ IsFiniteSet(m.live)
  BY DEF MemType
<1>1. m.live \ {o} \in SUBSET Nat /\ IsFiniteSet(m.live \ {o})
  BY <1>0, FS_Subset
<1>2. CASE o = 0 BY <1>2 DEF R!Release
<1> DEFINE J == {j \in DOMAIN m.entry : m.entry[j] # R!Freed /\ m.bmp[m.entry[j]].obj = o}
           i == R!Least(J)
<1>3. CASE o # 0 /\ J = {}
  <2>1. R!Release(m, o) = [m EXCEPT !.live = @ \ {o}] BY <1>3 DEF R!Release
  <2> QED BY <1>1, <2>1 DEF MemType
<1>4. CASE o # 0 /\ J # {}
  <2>1. R!Release(m, o) = [m EXCEPT !.bmp[m.entry[i]].obj = 0, !.live = @ \ {o}, !.entry = R!RemoveResource(@, i)]
    BY <1>4 DEF R!Release, R!DestroyResource
  <2>2. J \in SUBSET Nat BY <1>0
  <2>3. i \in J
    <3> HIDE DEF J
    <3> QED BY <1>4, <2>2, LeastOf
  <2> HIDE DEF i
  <2>4. i \in DOMAIN m.entry /\ m.entry[i] \in Bitmaps BY <1>0, <2>3 DEF Places
  <2>5. R!RemoveResource(m.entry, i) \in Seq(Places) BY <1>0, <2>4, Removed DEF R!RemoveResource
  <2> HIDE DEF J
  <2>6. [m.bmp EXCEPT ![m.entry[i]].obj = 0] \in [Bitmaps -> Pixels] BY <1>0, <2>4 DEF Pixels
  <2> QED BY <1>1, <2>1, <2>5, <2>6 DEF MemType
<1> QED BY <1>2, <1>3, <1>4

Forgot(m, n, b) ==
  /\ DOMAIN n.atlas = DOMAIN m.atlas
  /\ \A k \in DOMAIN m.atlas :
       /\ n.atlas[k].id = m.atlas[k].id /\ n.atlas[k].page = m.atlas[k].page
       /\ Members(n, k) = {IF e = b THEN R!Freed ELSE e : e \in Members(m, k)}

LEMMA ForgetTyped ==
  ASSUME NEW q \in Seq(Places), NEW b
  PROVE  /\ R!Forget(q, b) \in Seq(Places) /\ DOMAIN R!Forget(q, b) = DOMAIN q
         /\ \A i \in DOMAIN q : R!Forget(q, b)[i] = IF q[i] = b THEN R!Freed ELSE q[i]
<1>1. DOMAIN q = 1 .. Len(q) /\ Len(q) \in Nat OBVIOUS
<1>2. R!Forget(q, b) = [i \in 1 .. Len(q) |-> IF q[i] = b THEN R!Freed ELSE q[i]]
  BY <1>1 DEF R!Forget
<1>3. \A i \in 1 .. Len(q) : (IF q[i] = b THEN R!Freed ELSE q[i]) \in Places
  BY DEF Places
<1> QED BY <1>1, <1>2, <1>3

LEMMA DestroyTyped ==
  ASSUME NEW m \in MemType, NEW b \in Bitmaps
  PROVE  LET n == R!Destroy(m, b)
             d == R!Release(m, m.bmp[b].obj)
         IN /\ n \in MemType /\ n.stale = (m.stale \/ R!Shared(m, b))
            /\ n.bmp = [d.bmp EXCEPT ![b] = R!Closed] /\ n.live = d.live
            /\ n.crowded = d.crowded \ {b} /\ n.blank = d.blank \ {b}
            /\ n.entry = R!Forget(d.entry, b) /\ Forgot(m, n, b)
<1> DEFINE d == R!Release(m, m.bmp[b].obj)
           at == [k \in DOMAIN d.atlas |-> [d.atlas[k] EXCEPT !.member = R!Forget(d.atlas[k].member, b)]]
           w == R!Forsake(d, b)
           n == R!Destroy(m, b)
<1>1. d \in MemType /\ d.atlas = m.atlas /\ d.stale = m.stale
  <2> HIDE DEF d
  <2>1. d.bmp = d.bmp OBVIOUS
  <2> QED BY ReleaseTyped DEF d
<1> HIDE DEF d
<1>2. w = [d EXCEPT !.entry = R!Forget(@, b), !.atlas = at] BY DEF R!Forsake
<1>3. /\ d.entry \in Seq(Places) /\ d.bmp \in [Bitmaps -> Pixels] /\ d.atlas \in Seq(Atlas)
      /\ DOMAIN d.atlas = 1 .. Len(d.atlas) /\ Len(d.atlas) \in Nat
  BY <1>1 DEF MemType
<1>4. R!Closed \in Pixels BY DEF R!Closed, Pixels
<1>5. R!Forget(d.entry, b) \in Seq(Places) BY <1>3, ForgetTyped
<1>6. ASSUME NEW k \in DOMAIN d.atlas
      PROVE  /\ at[k] \in Atlas /\ at[k].id = d.atlas[k].id /\ at[k].page = d.atlas[k].page
             /\ at[k].member = R!Forget(d.atlas[k].member, b) /\ d.atlas[k].member \in Seq(Places)
  <2>1. d.atlas[k] \in Atlas BY <1>3
  <2>2. d.atlas[k].member \in Seq(Places) BY <2>1 DEF Atlas
  <2>3. R!Forget(d.atlas[k].member, b) \in Seq(Places) BY <2>2, ForgetTyped
  <2> QED BY <2>1, <2>2, <2>3 DEF Atlas
<1>7. at \in Seq(Atlas) /\ DOMAIN at = DOMAIN m.atlas
  <2>1. at \in [1 .. Len(d.atlas) -> Atlas] BY <1>3, <1>6
  <2> HIDE DEF at
  <2> QED BY <1>1, <1>3, <2>1
<1>8. \A k \in DOMAIN m.atlas : /\ at[k].id = m.atlas[k].id /\ at[k].page = m.atlas[k].page
                                /\ at[k].member = R!Forget(m.atlas[k].member, b) /\ m.atlas[k].member \in Seq(Places)
  BY <1>1, <1>6
<1> HIDE DEF at, w
<1>9. /\ w \in MemType /\ w.entry = R!Forget(d.entry, b) /\ w.atlas = at /\ w.bmp = d.bmp /\ w.live = d.live
      /\ w.crowded = d.crowded /\ w.blank = d.blank /\ w.stale = d.stale
  BY <1>1, <1>2, <1>5, <1>7 DEF MemType
<1> DEFINE sh == R!Shared(m, b)
<1>10. n = [w EXCEPT !.bmp = [@ EXCEPT ![b] = R!Closed], !.crowded = @ \ {b}, !.blank = @ \ {b}, !.stale = @ \/ sh]
  BY <1>9 DEF R!Destroy, MemType, w, d
<1> HIDE DEF n
<1>13. sh \in BOOLEAN BY DEF R!Shared
<1> HIDE DEF sh
<1>11. /\ n \in MemType
       /\ n.bmp = [d.bmp EXCEPT ![b] = R!Closed] /\ n.live = d.live
       /\ n.crowded = d.crowded \ {b} /\ n.blank = d.blank \ {b}
       /\ n.entry = R!Forget(d.entry, b) /\ n.atlas = at /\ n.stale = (d.stale \/ sh)
  BY <1>4, <1>9, <1>10, <1>13 DEF MemType
<1>12. Forgot(m, n, b)
  <2> SUFFICES ASSUME NEW k \in DOMAIN m.atlas
               PROVE  Members(n, k) = {IF e = b THEN R!Freed ELSE e : e \in Members(m, k)}
    BY <1>7, <1>8, <1>11 DEF Forgot
  <2> DEFINE q == m.atlas[k].member
  <2>1. q \in Seq(Places) /\ n.atlas[k].member = R!Forget(q, b) BY <1>8, <1>11
  <2> HIDE DEF q
  <2>2. /\ DOMAIN n.atlas[k].member = DOMAIN q
        /\ \A i \in DOMAIN q : n.atlas[k].member[i] = IF q[i] = b THEN R!Freed ELSE q[i]
    BY <2>1, ForgetTyped
  <2>3. Members(m, k) = {q[i] : i \in DOMAIN q} BY DEF Members, q
  <2> QED BY <2>2, <2>3 DEF Members
<1> QED BY <1>1, <1>11, <1>12 DEF d, n, sh


\* What is freed was in the table once, or not at all.
LEMMA ReleaseKeeps ==
  ASSUME NEW m \in MemType, NEW b \in Bitmaps, Table(m), Held(m), Filled(m)
  PROVE  LET d == R!Release(m, m.bmp[b].obj) IN
           /\ d.live = m.live \ {m.bmp[b].obj} /\ d.crowded = m.crowded /\ d.blank = m.blank
           /\ d.bmp \in [Bitmaps -> Pixels] /\ \A c \in Bitmaps : c # b => d.bmp[c] = m.bmp[c]
           /\ Entries(d) = Entries(m) \ {b}
           /\ \A i, j \in DOMAIN d.entry : i # j => d.entry[i] # d.entry[j]
<1> DEFINE o == m.bmp[b].obj
           d == R!Release(m, o)
           J == {j \in DOMAIN m.entry : m.entry[j] # R!Freed /\ m.bmp[m.entry[j]].obj = o}
           i == R!Least(J)
<1>0. /\ m.entry \in Seq(Places) /\ m.bmp \in [Bitmaps -> Pixels] /\ m.live \in SUBSET Nat
      /\ \A j \in DOMAIN m.entry : m.entry[j] \in Places
      /\ R!Freed \notin Bitmaps
  BY Places_ DEF MemType
<1>1. \A j, k \in DOMAIN m.entry : j # k => m.entry[j] # m.entry[k] BY DEF Table
<1>2. Entries(m) \subseteq Bitmaps BY DEF Table, R!Open
<1>3. \A e \in Entries(m) : m.bmp[e].obj # 0 /\ \A c \in Bitmaps \ {e} : m.bmp[c].obj # m.bmp[e].obj
  BY DEF Filled
<1>4. \A j \in DOMAIN m.entry : m.entry[j] \in Entries(m) BY DEF Entries
<1>5. o # 0 => \A j \in DOMAIN m.entry : j \in J <=> m.entry[j] = b
  BY <1>0, <1>2, <1>3, <1>4
<1>6. CASE o = 0
  <2>1. d = m BY <1>6 DEF R!Release
  <2>2. b \notin Entries(m) BY <1>3, <1>6
  <2>3. 0 \notin m.live BY DEF Held
  <2> HIDE DEF o, d
  <2> QED BY <1>0, <1>1, <1>6, <2>1, <2>2, <2>3 DEF o, d
<1>7. CASE o # 0 /\ J = {}
  <2>1. d = [m EXCEPT !.live = @ \ {o}] BY <1>7 DEF R!Release
  <2>2. b \notin Entries(m) BY <1>5, <1>7 DEF Entries
  <2> HIDE DEF o, d, J
  <2>3. /\ d.live = m.live \ {o} /\ d.crowded = m.crowded /\ d.blank = m.blank
        /\ d.bmp = m.bmp /\ d.entry = m.entry
    BY <2>1 DEF MemType
  <2> QED BY <1>0, <1>1, <2>2, <2>3 DEF o, d, Entries
<1>8. CASE o # 0 /\ J # {}
  <2>1. d = [m EXCEPT !.bmp[m.entry[i]].obj = 0, !.live = @ \ {o}, !.entry = R!RemoveResource(@, i)]
    BY <1>8 DEF R!Release, R!DestroyResource
  <2>2. J \in SUBSET Nat BY <1>0
  <2>3. i \in J
    <3> HIDE DEF J
    <3> QED BY <1>8, <2>2, LeastOf
  <2> HIDE DEF i
  <2>4. i \in DOMAIN m.entry /\ m.entry[i] = b BY <1>5, <1>8, <2>3
  <2> HIDE DEF J, o, d
  <2>5. /\ d.live = m.live \ {o} /\ d.crowded = m.crowded /\ d.blank = m.blank
        /\ d.bmp = [m.bmp EXCEPT ![b].obj = 0] /\ d.entry = R!RemoveAt(m.entry, i)
    BY <2>1, <2>4 DEF MemType, R!RemoveResource
  <2>6. /\ \A j, k \in DOMAIN d.entry : j # k => d.entry[j] # d.entry[k]
        /\ {d.entry[j] : j \in DOMAIN d.entry} = {m.entry[j] : j \in DOMAIN m.entry} \ {b}
    <3> DEFINE s == m.entry
    <3>1. s \in Seq(Places) /\ i \in DOMAIN s /\ \A j, k \in DOMAIN s : j # k => s[j] # s[k]
      BY <1>0, <1>1, <2>4
    <3>2. d.entry = R!RemoveAt(s, i) /\ s[i] = b BY <2>4, <2>5
    <3> HIDE DEF s
    <3>3. LET r == R!RemoveAt(s, i) IN
           /\ \A j, k \in DOMAIN r : j # k => r[j] # r[k]
           /\ {r[j] : j \in DOMAIN r} = {s[j] : j \in DOMAIN s} \ {s[i]}
      BY ONLY <3>1, RemovedAll
    <3>4. \A j, k \in DOMAIN d.entry : j # k => d.entry[j] # d.entry[k] BY <3>2, <3>3
    <3>5. {d.entry[j] : j \in DOMAIN d.entry} = {s[j] : j \in DOMAIN s} \ {b} BY <3>2, <3>3
    <3> QED BY <3>4, <3>5 DEF s
  <2>7. d.bmp \in [Bitmaps -> Pixels] /\ \A c \in Bitmaps : c # b => d.bmp[c] = m.bmp[c]
    <3> DEFINE px == [m.bmp[b] EXCEPT !.obj = 0]
    <3>1. px \in Pixels BY <1>0 DEF Pixels
    <3>2. d.bmp = [m.bmp EXCEPT ![b] = px] BY <2>5
    <3> HIDE DEF px
    <3> QED BY <1>0, <3>1, <3>2
  <2> QED BY <2>5, <2>6, <2>7 DEF Entries, o, d
<1> QED BY <1>6, <1>7, <1>8

Behind(m, b, lf) == IF b \in Tiles THEN lf \cup Ids(m) ELSE lf

\* What goes leaves its pages behind, if it was on one.
LEMMA DestroyKeeps ==
  ASSUME NEW m \in MemType, NEW b \in R!Open(m), ~R!Shared(m, b), NEW lf, Kept(m, lf)
  PROVE  LET n == R!Destroy(m, b) IN
           /\ n \in MemType /\ Kept(n, Behind(m, b, lf)) /\ R!Open(n) = R!Open(m) \ {b}
           /\ n.stale = m.stale /\ Ids(n) = Ids(m) /\ (Pages(m) => Pages(n))
<1> DEFINE o == m.bmp[b].obj
           d == R!Release(m, o)
           n == R!Destroy(m, b)
<1>0. b \in Bitmaps /\ m.bmp \in [Bitmaps -> Pixels] /\ m.bmp[b].open BY DEF R!Open, MemType
<1>1. /\ n \in MemType /\ n.stale = (m.stale \/ R!Shared(m, b))
      /\ n.bmp = [d.bmp EXCEPT ![b] = R!Closed] /\ n.live = d.live
      /\ n.crowded = d.crowded \ {b} /\ n.blank = d.blank \ {b}
      /\ n.entry = R!Forget(d.entry, b) /\ Forgot(m, n, b)
  BY <1>0, DestroyTyped
<1>2. /\ d.live = m.live \ {o} /\ d.crowded = m.crowded /\ d.blank = m.blank
      /\ d.bmp \in [Bitmaps -> Pixels] /\ \A c \in Bitmaps : c # b => d.bmp[c] = m.bmp[c]
      /\ Entries(d) = Entries(m) \ {b}
      /\ \A i, j \in DOMAIN d.entry : i # j => d.entry[i] # d.entry[j]
  BY <1>0, ReleaseKeeps DEF Kept
<1>3. d \in MemType
  <2> HIDE DEF d
  <2>1. d.bmp = d.bmp OBVIOUS
  <2> QED BY ReleaseTyped DEF d
<1>4. \A c \in Bitmaps \ {b} : o # 0 => m.bmp[c].obj # o BY DEF R!Shared
<1> HIDE DEF o, d, n
<1>5. n.entry = d.entry
  <2>1. d.entry \in Seq(Places) BY <1>3 DEF MemType
  <2>2. \A i \in DOMAIN d.entry : d.entry[i] # b BY <1>2 DEF Entries
  <2>3. R!Forget(d.entry, b) = [i \in DOMAIN d.entry |-> d.entry[i]] BY <2>2 DEF R!Forget
  <2>4. d.entry = [i \in DOMAIN d.entry |-> d.entry[i]] BY <2>1
  <2> QED BY <1>1, <2>3, <2>4
<1>6. Entries(n) = Entries(m) \ {b} BY <1>2, <1>5 DEF Entries
<1>7. n.bmp[b] = R!Closed /\ \A c \in Bitmaps \ {b} : n.bmp[c] = m.bmp[c]
  BY <1>0, <1>1, <1>2
<1>8. R!Open(n) = R!Open(m) \ {b} BY <1>7, <1>0 DEF R!Open, R!Closed
<1>9. n.stale = m.stale BY <1>1 DEF MemType
<1>10. Table(n)
  <2>1. \A i, j \in DOMAIN n.entry : i # j => n.entry[i] # n.entry[j] BY <1>2, <1>5
  <2>2. R!Open(n) = Entries(n) \cup n.crowded \cup n.blank
    BY <1>1, <1>2, <1>6, <1>8 DEF Kept, Table
  <2>3. Entries(n) \cap (n.crowded \cup n.blank) = {} BY <1>1, <1>2, <1>6 DEF Kept, Table
  <2>4. \A c \in Bitmaps \ R!Open(n) : n.bmp[c] = R!Closed BY <1>7, <1>8 DEF Kept, Table
  <2>5. \A c \in n.blank : n.bmp[c].obj = 0
    <3>1. \A c \in m.blank : c \in Bitmaps /\ m.bmp[c].obj = 0 BY DEF Kept, Table, MemType
    <3> QED BY <1>1, <1>2, <1>7, <3>1
  <2> QED BY <2>1, <2>2, <2>3, <2>4, <2>5 DEF Table
<1>11. Held(n)
  <2>1. n.bmp[b].obj = 0 BY <1>7 DEF R!Closed
  <2>2. 0 \notin n.live BY <1>1, <1>2 DEF Kept, Held
  <2>3. \A c \in Bitmaps : n.bmp[c].obj # 0 => n.bmp[c].obj \in n.live
    BY <1>1, <1>2, <1>4, <1>7, <2>1 DEF Kept, Held
  <2>4. \A q \in n.live : \E c \in Bitmaps : n.bmp[c].obj = q
    BY <1>1, <1>2, <1>7 DEF Kept, Held, o
  <2> QED BY <2>2, <2>3, <2>4 DEF Held
<1>12. Filled(n)
  <2> SUFFICES ASSUME NEW e \in Entries(n)
               PROVE n.bmp[e].obj # 0 /\ \A c \in Bitmaps \ {e} : n.bmp[c].obj # n.bmp[e].obj
    BY DEF Filled
  <2>1. e \in Entries(m) /\ e # b /\ e \in Bitmaps BY <1>6 DEF Kept, Table, R!Open
  <2>2. m.bmp[e].obj # 0 /\ \A c \in Bitmaps \ {e} : m.bmp[c].obj # m.bmp[e].obj
    BY <2>1 DEF Kept, Filled
  <2>3. n.bmp[b].obj = 0 BY <1>7 DEF R!Closed
  <2> QED BY <1>7, <2>1, <2>2, <2>3
<1>13. Ids(n) = Ids(m) BY <1>1 DEF Ids, Forgot
<1>14. Bound(n, Behind(m, b, lf))
  <2>1. 0 \notin Ids(n) /\ \A k, l \in DOMAIN n.atlas : k # l => n.atlas[k].id # n.atlas[l].id
    BY <1>1, <1>13 DEF Kept, Bound, Forgot
  <2>2. ASSUME NEW k \in DOMAIN n.atlas
        PROVE  /\ Members(n, k) \subseteq (Tiles \cap R!Open(n)) \cup {R!Freed}
               /\ R!Freed \in Members(n, k) => n.atlas[k].id \in Behind(m, b, lf)
    <3>1. /\ k \in DOMAIN m.atlas /\ n.atlas[k].id = m.atlas[k].id
          /\ Members(n, k) = {IF e = b THEN R!Freed ELSE e : e \in Members(m, k)}
      BY <1>1, <2>2 DEF Forgot
    <3>2. /\ Members(m, k) \subseteq (Tiles \cap R!Open(m)) \cup {R!Freed}
          /\ R!Freed \in Members(m, k) => m.atlas[k].id \in lf
      BY <3>1 DEF Kept, Bound
    <3>3. m.atlas[k].id \in Ids(m) BY <3>1 DEF Ids
    <3>4. Members(n, k) \subseteq (Tiles \cap R!Open(n)) \cup {R!Freed} BY <1>8, <3>1, <3>2
    <3>5. ASSUME R!Freed \in Members(n, k) PROVE n.atlas[k].id \in Behind(m, b, lf)
      <4>1. R!Freed \in Members(m, k) \/ b \in Members(m, k) BY <3>1, <3>5
      <4>2. CASE R!Freed \in Members(m, k) BY <3>1, <3>2, <4>2 DEF Behind
      <4>3. CASE b \in Members(m, k)
        <5>1. b \in Tiles BY <1>0, <3>2, <4>3, Places_
        <5> QED BY <5>1, <3>1, <3>3 DEF Behind
      <4> QED BY <4>1, <4>2, <4>3
    <3> QED BY <3>4, <3>5
  <2>3. \A e \in Entries(n) : n.bmp[e].on # 0 => e \in Tiles /\ n.bmp[e].on \in Ids(n)
    <3> SUFFICES ASSUME NEW e \in Entries(n), n.bmp[e].on # 0 PROVE e \in Tiles /\ n.bmp[e].on \in Ids(n)
      OBVIOUS
    <3>1. e \in Entries(m) /\ e # b /\ e \in Bitmaps BY <1>6 DEF Kept, Table, R!Open
    <3>2. n.bmp[e] = m.bmp[e] BY <1>7, <3>1
    <3> QED BY <1>13, <3>1, <3>2 DEF Kept, Bound
  <2> QED BY <2>1, <2>2, <2>3 DEF Bound
<1>15. Pages(m) => Pages(n) BY <1>1 DEF Pages, Forgot
<1> QED BY <1>1, <1>8, <1>9, <1>10, <1>11, <1>12, <1>13, <1>14, <1>15 DEF n, Kept


\* The tiles of a level are loaded one after the other.
LEMMA LoadsKeep ==
  ASSUME NEW m \in MemType, NEW n \in Nat, NEW seq \in [1 .. n -> Bitmaps],
         \A i, j \in 1 .. n : i # j => seq[i] # seq[j], NEW lf
  PROVE  LET v == R!FoldLeft(R!Load, m, seq) IN
           /\ v \in MemType /\ v.atlas = m.atlas /\ v.stale = m.stale
           /\ Kept(m, lf) /\ (\A i \in 1 .. n : ~m.bmp[seq[i]].open) =>
                Kept(v, lf) /\ R!Open(v) = R!Open(m) \cup {seq[i] : i \in 1 .. n}
<1> DEFINE S == 1 .. n
           F == [p \in MemType \X S |-> R!Load(p[1], seq[p[2]])]
           Good(T, v) == /\ v.atlas = m.atlas /\ v.stale = m.stale
                         /\ Kept(m, lf) /\ (\A i \in S : ~m.bmp[seq[i]].open) =>
                              Kept(v, lf) /\ R!Open(v) = R!Open(m) \cup {seq[i] : i \in T}
           Q == {p \in (SUBSET S) \X MemType : Good(p[1], p[2])}
           iter[T \in SUBSET S] ==
             IF T = {} THEN m ELSE LET t == R!Max(T) IN R!Load(iter[T \ {t}], seq[t])
<1>1. F \in [MemType \X S -> MemType]
  <2> SUFFICES ASSUME NEW v \in MemType, NEW i \in S PROVE R!Load(v, seq[i]) \in MemType
    OBVIOUS
  <2>1. seq[i] \in Bitmaps OBVIOUS
  <2> QED BY <2>1, LoadMakes
<1>2. PICK g \in [SUBSET S -> MemType] : Folded(g, n, MemType, m, F)
  <2> HIDE DEF F
  <2> QED BY <1>1, FoldMade
<1>3. \A T \in SUBSET S : T # {} => R!Max(T) \in T BY GreatestOf
<1>4. g = [T \in SUBSET S |-> IF T = {} THEN m ELSE LET t == R!Max(T) IN R!Load(g[T \ {t}], seq[t])]
  <2>1. ASSUME NEW T \in SUBSET S, T # {} PROVE g[T] = R!Load(g[T \ {R!Max(T)}], seq[R!Max(T)])
    <3> DEFINE t == R!Max(T)
    <3>1. t \in S /\ T \ {t} \in SUBSET S BY <1>3, <2>1
    <3> HIDE DEF t, S, F
    <3>2. g[T \ {t}] \in MemType BY <3>1
    <3>3. g[T] = F[<<g[T \ {t}], t>>] BY <1>2, <2>1, <3>2 DEF Folded, S, t
    <3> QED BY <3>1, <3>2, <3>3 DEF F, t
  <2>2. g[{}] = m BY <1>2 DEF Folded
  <2> HIDE DEF S, F
  <2> QED BY <2>1, <2>2
<1>5. iter = [T \in SUBSET S |-> IF T = {} THEN m ELSE LET t == R!Max(T) IN R!Load(iter[T \ {t}], seq[t])]
  <2> HIDE DEF S, F
  <2> QED BY <1>4, Zenon
<1>6. R!FoldLeft(R!Load, m, seq) = iter[S]
  <2>1. DOMAIN seq = S OBVIOUS
  <2> QED BY <2>1, Zenon DEF R!FoldLeft, R!MapThenFoldSet
<1> HIDE DEF iter
<1>7. Folded(iter, n, MemType, m, F)
  <2>1. iter[{}] = m BY <1>5
  <2>2. ASSUME NEW T \in SUBSET S, T # {}, iter[T \ {R!Max(T)}] \in MemType
        PROVE iter[T] = F[<<iter[T \ {R!Max(T)}], R!Max(T)>>]
    <3> DEFINE t == R!Max(T)
    <3>1. t \in S BY <1>3, <2>2
    <3>2. iter[T] = R!Load(iter[T \ {t}], seq[t]) BY <1>5, <2>2
    <3> HIDE DEF t, S
    <3>3. iter[T \ {t}] \in MemType BY <2>2 DEF t
    <3> QED BY <3>1, <3>2, <3>3 DEF t
  <2> QED BY <2>1, <2>2 DEF Folded
<1>8. <<{}, m>> \in Q OBVIOUS
<1>9. ASSUME NEW T \in SUBSET S, NEW v \in MemType, T # {}, <<T \ {R!Max(T)}, v>> \in Q
      PROVE  <<T, F[<<v, R!Max(T)>>]>> \in Q
  <2> DEFINE t == R!Max(T)
             b == seq[t]
             w == R!Load(v, b)
  <2>1. t \in T /\ t \in S /\ b \in Bitmaps BY <1>3, <1>9
  <2>2. Good(T \ {t}, v) BY <1>9
  <2>3. F[<<v, t>>] = w BY <2>1
  <2> HIDE DEF t, F
  <2>4. w \in MemType /\ w.atlas = v.atlas /\ w.stale = v.stale
    <3> HIDE DEF b
    <3> QED BY <2>1, LoadMakes
  <2>5. ASSUME Kept(m, lf), \A i \in S : ~m.bmp[seq[i]].open
        PROVE  Kept(w, lf) /\ R!Open(w) = R!Open(m) \cup {seq[i] : i \in T}
    <3>1. b \notin R!Open(m) BY <2>1, <2>5 DEF R!Open
    <3>2. \A i \in T \ {t} : seq[i] # b BY <2>1
    <3>3. Kept(v, lf) /\ R!Open(v) = R!Open(m) \cup {seq[i] : i \in T \ {t}} BY <2>2, <2>5
    <3>4. ~v.bmp[b].open BY <2>1, <3>1, <3>2, <3>3 DEF R!Open
    <3> HIDE DEF b
    <3>5. Kept(w, lf) /\ R!Open(w) = R!Open(v) \cup {b} BY <2>1, <3>3, <3>4, LoadKeeps
    <3> HIDE DEF w
    <3> QED BY <2>1, <3>3, <3>5 DEF b
  <2>7. w \in MemType BY <2>4
  <2>9. Good(T, w) BY <2>2, <2>4, <2>5
  <2> HIDE DEF Good
  <2>10. F[<<v, R!Max(T)>>] = w BY <2>3 DEF t
  <2> HIDE DEF w
  <2> QED BY <2>7, <2>9, <2>10
<1>10. iter[S] \in MemType /\ <<S, iter[S]>> \in Q
  <2> HIDE DEF F, Q
  <2> QED BY <1>1, <1>7, <1>8, <1>9, FoldKeeps
<1> QED BY <1>6, <1>10

LEMMA KeptMore ==
  ASSUME NEW m, NEW lf, NEW lg, lf \subseteq lg, Kept(m, lf)
  PROVE  Kept(m, lg)
BY DEF Kept, Bound

\* The tiles of a level go one after the other, and leave their pages behind.
LEMMA DestroysKeep ==
  ASSUME NEW m \in MemType, NEW n \in Nat, NEW seq \in [1 .. n -> Tiles],
         \A i, j \in 1 .. n : i # j => seq[i] # seq[j], NEW lf
  PROVE  LET v == R!FoldLeft(R!Destroy, m, seq) IN
           /\ v \in MemType /\ Ids(v) = Ids(m) /\ (Pages(m) => Pages(v))
           /\ ~v.stale => ~m.stale
           /\ ~v.stale /\ Kept(m, lf) /\ (\A i \in 1 .. n : m.bmp[seq[i]].open) =>
                Kept(v, lf \cup Ids(m)) /\ R!Open(v) = R!Open(m) \ {seq[i] : i \in 1 .. n}
<1> DEFINE S == 1 .. n
           lg == lf \cup Ids(m)
           F == [p \in MemType \X S |-> R!Destroy(p[1], seq[p[2]])]
           Good(T, v) == /\ Ids(v) = Ids(m) /\ (Pages(m) => Pages(v))
                         /\ ~v.stale => ~m.stale
                         /\ ~v.stale /\ Kept(m, lf) /\ (\A i \in S : m.bmp[seq[i]].open) =>
                              Kept(v, lg) /\ R!Open(v) = R!Open(m) \ {seq[i] : i \in T}
           Q == {p \in (SUBSET S) \X MemType : Good(p[1], p[2])}
           iter[T \in SUBSET S] ==
             IF T = {} THEN m ELSE LET t == R!Max(T) IN R!Destroy(iter[T \ {t}], seq[t])
<1>0. \A i \in S : seq[i] \in Tiles /\ seq[i] \in Bitmaps BY Places_
<1>1. F \in [MemType \X S -> MemType]
  <2> SUFFICES ASSUME NEW v \in MemType, NEW i \in S PROVE R!Destroy(v, seq[i]) \in MemType
    OBVIOUS
  <2>1. seq[i] \in Bitmaps BY <1>0
  <2> QED BY <2>1, DestroyTyped
<1>2. PICK g \in [SUBSET S -> MemType] : Folded(g, n, MemType, m, F)
  <2> HIDE DEF F
  <2> QED BY <1>1, FoldMade
<1>3. \A T \in SUBSET S : T # {} => R!Max(T) \in T BY GreatestOf
<1>4. g = [T \in SUBSET S |-> IF T = {} THEN m ELSE LET t == R!Max(T) IN R!Destroy(g[T \ {t}], seq[t])]
  <2>1. ASSUME NEW T \in SUBSET S, T # {} PROVE g[T] = R!Destroy(g[T \ {R!Max(T)}], seq[R!Max(T)])
    <3> DEFINE t == R!Max(T)
    <3>1. t \in S /\ T \ {t} \in SUBSET S BY <1>3, <2>1
    <3> HIDE DEF t, S, F
    <3>2. g[T \ {t}] \in MemType BY <3>1
    <3>3. g[T] = F[<<g[T \ {t}], t>>] BY <1>2, <2>1, <3>2 DEF Folded, S, t
    <3> QED BY <3>1, <3>2, <3>3 DEF F, t
  <2>2. g[{}] = m BY <1>2 DEF Folded
  <2> HIDE DEF S, F
  <2> QED BY <2>1, <2>2
<1>5. iter = [T \in SUBSET S |-> IF T = {} THEN m ELSE LET t == R!Max(T) IN R!Destroy(iter[T \ {t}], seq[t])]
  <2> HIDE DEF S, F
  <2> QED BY <1>4, Zenon
<1>6. R!FoldLeft(R!Destroy, m, seq) = iter[S]
  <2>1. DOMAIN seq = S OBVIOUS
  <2> QED BY <2>1, Zenon DEF R!FoldLeft, R!MapThenFoldSet
<1> HIDE DEF iter
<1>7. Folded(iter, n, MemType, m, F)
  <2>1. iter[{}] = m BY <1>5
  <2>2. ASSUME NEW T \in SUBSET S, T # {}, iter[T \ {R!Max(T)}] \in MemType
        PROVE iter[T] = F[<<iter[T \ {R!Max(T)}], R!Max(T)>>]
    <3> DEFINE t == R!Max(T)
    <3>1. t \in S BY <1>3, <2>2
    <3>2. iter[T] = R!Destroy(iter[T \ {t}], seq[t]) BY <1>5, <2>2
    <3> HIDE DEF t, S
    <3>3. iter[T \ {t}] \in MemType BY <2>2 DEF t
    <3> QED BY <3>1, <3>2, <3>3 DEF t
  <2> QED BY <2>1, <2>2 DEF Folded
<1>8. <<{}, m>> \in Q
  <2>1. Kept(m, lf) => Kept(m, lg)
    <3>1. lf \subseteq lg OBVIOUS
    <3> HIDE DEF lg
    <3> QED BY <3>1, KeptMore
  <2>2. Good({}, m) BY <2>1
  <2> HIDE DEF Good
  <2> QED BY <2>2
<1>9. ASSUME NEW T \in SUBSET S, NEW v \in MemType, T # {}, <<T \ {R!Max(T)}, v>> \in Q
      PROVE  <<T, F[<<v, R!Max(T)>>]>> \in Q
  <2> DEFINE t == R!Max(T)
             b == seq[t]
             w == R!Destroy(v, b)
  <2>1. t \in T /\ t \in S /\ b \in Tiles /\ b \in Bitmaps BY <1>0, <1>3, <1>9
  <2>2. Good(T \ {t}, v) BY <1>9
  <2>3. F[<<v, t>>] = w BY <2>1
  <2> HIDE DEF t, F
  <2>5. \A i \in T \ {t} : seq[i] # b BY <2>1
  <2>c. ASSUME \A i \in S : m.bmp[seq[i]].open PROVE b \in R!Open(m) BY <2>1, <2>c DEF R!Open
  <2> HIDE DEF b
  <2>6. w \in MemType /\ w.stale = (v.stale \/ R!Shared(v, b)) /\ Forgot(v, w, b)
    BY <2>1, DestroyTyped
  <2> HIDE DEF w
  <2>7. Ids(w) = Ids(v) /\ (Pages(v) => Pages(w)) BY <2>6 DEF Ids, Pages, Forgot
  <2>d. ~w.stale => ~v.stale /\ ~R!Shared(v, b)
    <3>1. R!Shared(v, b) \in BOOLEAN BY DEF R!Shared
    <3>2. v.stale \in BOOLEAN BY DEF MemType
    <3> QED BY <2>6, <3>1, <3>2
  <2>8. ASSUME ~w.stale, Kept(m, lf), \A i \in S : m.bmp[seq[i]].open
        PROVE  Kept(w, lg) /\ R!Open(w) = R!Open(m) \ {seq[i] : i \in T}
    <3>1. ~v.stale /\ ~R!Shared(v, b) BY <2>8, <2>d
    <3>2. Kept(v, lg) /\ R!Open(v) = R!Open(m) \ {seq[i] : i \in T \ {t}} BY <2>2, <2>8, <3>1
    <3>3. b \in R!Open(v) BY <2>8, <2>c, <2>5, <3>2
    <3>4. Kept(w, Behind(v, b, lg)) /\ R!Open(w) = R!Open(v) \ {b}
      <4> HIDE DEF lg
      <4> QED BY <3>1, <3>2, <3>3, DestroyKeeps DEF w
    <3>5. Behind(v, b, lg) = lg BY <2>1, <2>2 DEF Behind
    <3>6. R!Open(w) = R!Open(m) \ {seq[i] : i \in T} BY <2>1, <3>2, <3>4 DEF b
    <3> QED BY <3>4, <3>5, <3>6
  <2>9. Good(T, w) BY <2>2, <2>7, <2>8, <2>d
  <2> HIDE DEF Good
  <2>10. F[<<v, R!Max(T)>>] = w BY <2>3 DEF t
  <2> QED BY <2>6, <2>9, <2>10
<1>10. iter[S] \in MemType /\ <<S, iter[S]>> \in Q
  <2> HIDE DEF F, Q
  <2> QED BY <1>1, <1>7, <1>8, <1>9, FoldKeeps
<1> QED BY <1>6, <1>10

\* What is given up for a while, and what it is then filled with.
Void(m, lf)  == Table(m) /\ Held(m) /\ Voided(m) /\ Bound(m, lf)
Alike(m, n) == R!Open(n) = R!Open(m) /\ Ids(n) = Ids(m) /\ n.stale = m.stale

LEMMA UnloadKeeps ==
  ASSUME NEW m \in MemType, NEW lf
  PROVE  LET n == R!UnloadResources(m) IN
           /\ n \in MemType /\ n.stale = m.stale
           /\ Kept(m, lf) \/ Void(m, lf) => Void(n, lf) /\ Alike(m, n) /\ n.atlas = m.atlas
<1> DEFINE D == {b \in R!Open(m) : R!Registered(m, b)}
           n == R!UnloadResources(m)
           bm == [b \in Bitmaps |-> IF b \in D THEN [m.bmp[b] EXCEPT !.obj = 0, !.on = 0] ELSE m.bmp[b]]
           O == {m.bmp[b].obj : b \in D}
<1>1. n = [m EXCEPT !.bmp = bm, !.live = @ \ O] BY DEF R!UnloadResources
<1>2. m.bmp \in [Bitmaps -> Pixels] /\ m.live \in SUBSET Nat /\ IsFiniteSet(m.live)
  BY DEF MemType
<1>3. D = {b \in R!Open(m) : b \in Entries(m)} BY DEF R!Registered, R!ToSet, Entries
<1>4. \A b \in Bitmaps : /\ b \in D => bm[b].open = m.bmp[b].open /\ bm[b].obj = 0 /\ bm[b].on = 0
                         /\ b \notin D => bm[b] = m.bmp[b]
                         /\ bm[b] \in Pixels
  BY <1>2 DEF Pixels
<1>5. bm \in [Bitmaps -> Pixels] BY <1>4
<1> HIDE DEF bm, O, D, n
<1>6. IsFiniteSet(m.live \ O) BY <1>2, FS_Subset
<1>7. /\ n \in MemType /\ n.bmp = bm /\ n.live = m.live \ O /\ n.entry = m.entry /\ n.atlas = m.atlas
      /\ n.crowded = m.crowded /\ n.blank = m.blank /\ n.stale = m.stale
  BY <1>1, <1>2, <1>5, <1>6 DEF MemType
<1>8. ASSUME Kept(m, lf) \/ Void(m, lf) PROVE Void(n, lf) /\ Alike(m, n) /\ n.atlas = m.atlas
  <2>0. Table(m) /\ Held(m) /\ Bound(m, lf) /\ (Filled(m) \/ Voided(m)) BY <1>8 DEF Kept, Void
  <2>1. D = Entries(m) /\ Entries(m) \subseteq Bitmaps BY <2>0, <1>3 DEF Table, R!Open
  <2>2. Entries(n) = Entries(m) /\ Ids(n) = Ids(m) /\ \A k : Members(n, k) = Members(m, k)
    BY <1>7 DEF Entries, Ids, Members
  <2>3. R!Open(n) = R!Open(m) BY <1>4, <1>7 DEF R!Open
  <2>4. Table(n)
    <3>1. \A b \in Bitmaps \ R!Open(n) : n.bmp[b] = R!Closed
      BY <1>3, <1>4, <1>7, <2>0, <2>3 DEF Table
    <3>2. \A b \in n.blank : b \in Bitmaps /\ n.bmp[b].obj = 0
      BY <1>4, <1>7, <2>0 DEF Table, MemType
    <3> QED BY <1>7, <2>0, <2>2, <2>3, <3>1, <3>2 DEF Table
  <2>5. Voided(n) BY <1>4, <1>7, <2>1, <2>2 DEF Voided
  <2>6. \A c \in Bitmaps : c \notin D /\ m.bmp[c].obj # 0 => m.bmp[c].obj \notin O
    BY <2>0, <2>1 DEF Filled, Voided, O
  <2>7. Held(n)
    <3>1. 0 \notin n.live BY <1>7, <2>0 DEF Held
    <3>2. \A c \in Bitmaps : n.bmp[c].obj # 0 => n.bmp[c].obj \in n.live
      BY <1>4, <1>7, <2>0, <2>6 DEF Held
    <3>3. ASSUME NEW q \in n.live PROVE \E c \in Bitmaps : n.bmp[c].obj = q
      <4>1. q \in m.live /\ q \notin O BY <1>7, <3>3
      <4>2. PICK c \in Bitmaps : m.bmp[c].obj = q BY <2>0, <4>1 DEF Held
      <4>3. c \notin D BY <4>1, <4>2 DEF O
      <4> QED BY <1>4, <1>7, <4>2, <4>3
    <3> QED BY <3>1, <3>2, <3>3 DEF Held
  <2>8. Bound(n, lf)
    <3>1. \A e \in Entries(n) : n.bmp[e].on = 0 BY <2>5 DEF Voided
    <3> QED BY <1>7, <2>0, <2>2, <2>3, <3>1 DEF Bound
  <2> QED BY <1>7, <2>2, <2>3, <2>4, <2>5, <2>7, <2>8 DEF Void, Alike
<1> QED BY <1>7, <1>8 DEF n

\* Pages go and come back; who is on an atlas is on the page of the latest.
LEMMA PagesGo ==
  ASSUME NEW m \in MemType, NEW lf
  PROVE  LET n == R!UnloadAtlases(m) IN
           n \in MemType /\ Alike(m, n) /\ (Kept(m, lf) => Kept(n, lf)) /\ (Void(m, lf) => Void(n, lf))
<1> DEFINE n == R!UnloadAtlases(m)
           at == [k \in DOMAIN m.atlas |-> [m.atlas[k] EXCEPT !.page = FALSE]]
<1>1. n = [m EXCEPT !.atlas = at] BY DEF R!UnloadAtlases
<1>2. m.atlas \in Seq(Atlas) /\ DOMAIN m.atlas = 1 .. Len(m.atlas) /\ Len(m.atlas) \in Nat BY DEF MemType
<1>3. \A k \in DOMAIN m.atlas : at[k] \in Atlas /\ at[k].id = m.atlas[k].id /\ at[k].member = m.atlas[k].member
  <2> SUFFICES ASSUME NEW k \in DOMAIN m.atlas
               PROVE  at[k] \in Atlas /\ at[k].id = m.atlas[k].id /\ at[k].member = m.atlas[k].member
    OBVIOUS
  <2>1. m.atlas[k] \in Atlas BY <1>2
  <2> QED BY <2>1 DEF Atlas
<1>4. at \in Seq(Atlas) /\ DOMAIN at = DOMAIN m.atlas
  <2>1. at \in [1 .. Len(m.atlas) -> Atlas] BY <1>2, <1>3
  <2> HIDE DEF at
  <2> QED BY <1>2, <2>1
<1> HIDE DEF at, n
<1>5. /\ n \in MemType /\ n.atlas = at /\ n.bmp = m.bmp /\ n.entry = m.entry /\ n.live = m.live
      /\ n.crowded = m.crowded /\ n.blank = m.blank /\ n.stale = m.stale
  BY <1>1, <1>4 DEF MemType
<1>6. /\ Entries(n) = Entries(m) /\ Ids(n) = Ids(m) /\ R!Open(n) = R!Open(m)
      /\ \A k \in DOMAIN m.atlas : Members(n, k) = Members(m, k) /\ n.atlas[k].id = m.atlas[k].id
      /\ DOMAIN n.atlas = DOMAIN m.atlas
  BY <1>3, <1>4, <1>5 DEF Entries, Ids, Members, R!Open
<1>7. Alike(m, n) BY <1>5, <1>6 DEF Alike
<1>8. (Table(m) => Table(n)) /\ (Held(m) => Held(n)) /\ (Filled(m) => Filled(n)) /\ (Voided(m) => Voided(n))
  BY <1>5, <1>6 DEF Table, Held, Filled, Voided
<1>9. Bound(m, lf) => Bound(n, lf) BY <1>5, <1>6 DEF Bound
<1> QED BY <1>5, <1>7, <1>8, <1>9 DEF n, Kept, Void

LEMMA PagesReturn ==
  ASSUME NEW m \in MemType, NEW lf
  PROVE  LET n == R!RebuildAtlases(m) IN
           n \in MemType /\ Alike(m, n) /\ Pages(n) /\ (Kept(m, lf) => Kept(n, lf))
<1> DEFINE n == R!RebuildAtlases(m)
           at == [k \in DOMAIN m.atlas |-> [m.atlas[k] EXCEPT !.page = TRUE]]
           On(b) == {k \in DOMAIN m.atlas : b \in R!ToSet(m.atlas[k].member)}
           bm == [b \in Bitmaps |-> IF On(b) = {} THEN m.bmp[b]
                                    ELSE [m.bmp[b] EXCEPT !.on = m.atlas[R!Latest(On(b))].id]]
<1>1. n = [m EXCEPT !.atlas = at, !.bmp = bm] BY DEF R!RebuildAtlases
<1>2. /\ m.atlas \in Seq(Atlas) /\ DOMAIN m.atlas = 1 .. Len(m.atlas) /\ Len(m.atlas) \in Nat
      /\ m.bmp \in [Bitmaps -> Pixels]
  BY DEF MemType
<1>3. \A k \in DOMAIN m.atlas : /\ at[k] \in Atlas /\ at[k].id = m.atlas[k].id
                                /\ at[k].member = m.atlas[k].member /\ at[k].page
  <2> SUFFICES ASSUME NEW k \in DOMAIN m.atlas
               PROVE  /\ at[k] \in Atlas /\ at[k].id = m.atlas[k].id
                      /\ at[k].member = m.atlas[k].member /\ at[k].page
    OBVIOUS
  <2>1. m.atlas[k] \in Atlas BY <1>2
  <2> QED BY <2>1 DEF Atlas
<1>4. at \in Seq(Atlas) /\ DOMAIN at = DOMAIN m.atlas
  <2>1. at \in [1 .. Len(m.atlas) -> Atlas] BY <1>2, <1>3
  <2> HIDE DEF at
  <2> QED BY <1>2, <2>1
<1>5. ASSUME NEW b \in Bitmaps
      PROVE  /\ bm[b] \in Pixels /\ bm[b].open = m.bmp[b].open /\ bm[b].obj = m.bmp[b].obj
             /\ \/ bm[b] = m.bmp[b]
                \/ \E k \in DOMAIN m.atlas : b \in Members(m, k) /\ bm[b].on = m.atlas[k].id
  <2>0. m.bmp[b] \in Pixels BY <1>2
  <2>1. CASE On(b) = {} BY <2>0, <2>1 DEF Pixels
  <2>2. CASE On(b) # {}
    <3> DEFINE l == R!Latest(On(b))
    <3>1. \E p \in On(b) : \A q \in On(b) : p >= q
      <4>1. On(b) \in SUBSET (1 .. Len(m.atlas)) BY <1>2
      <4> HIDE DEF On
      <4> QED BY <1>2, <2>2, <4>1, GreatestIn
    <3>2. l \in On(b) BY <3>1 DEF R!Latest
    <3>3. l \in DOMAIN m.atlas /\ b \in Members(m, l) BY <3>2 DEF Members, R!ToSet
    <3>4. m.atlas[l] \in Atlas
      <4> HIDE DEF l
      <4> QED BY <1>2, <3>3
    <3>5. m.atlas[l].id \in Nat BY <3>4 DEF Atlas
    <3>6. bm[b] = [m.bmp[b] EXCEPT !.on = m.atlas[l].id] BY <2>2
    <3> HIDE DEF l, On, bm
    <3>7. bm[b] \in Pixels /\ bm[b].open = m.bmp[b].open /\ bm[b].obj = m.bmp[b].obj /\ bm[b].on = m.atlas[l].id
      BY <2>0, <3>5, <3>6 DEF Pixels
    <3> QED BY <3>3, <3>7
  <2> QED BY <2>1, <2>2
<1>6. bm \in [Bitmaps -> Pixels] BY <1>5
<1> HIDE DEF at, n, bm, On
<1>7. /\ n \in MemType /\ n.atlas = at /\ n.bmp = bm /\ n.entry = m.entry /\ n.live = m.live
      /\ n.crowded = m.crowded /\ n.blank = m.blank /\ n.stale = m.stale
  BY <1>1, <1>4, <1>6 DEF MemType
<1>8. /\ Entries(n) = Entries(m) /\ Ids(n) = Ids(m) /\ R!Open(n) = R!Open(m)
      /\ \A k \in DOMAIN m.atlas : Members(n, k) = Members(m, k) /\ n.atlas[k].id = m.atlas[k].id
      /\ DOMAIN n.atlas = DOMAIN m.atlas
  BY <1>3, <1>4, <1>5, <1>7 DEF Entries, Ids, Members, R!Open
<1>9. Alike(m, n) /\ Pages(n) BY <1>3, <1>4, <1>7, <1>8 DEF Alike, Pages
<1>10. ASSUME Kept(m, lf) PROVE Kept(n, lf)
  <2>0. Table(m) /\ Held(m) /\ Filled(m) /\ Bound(m, lf) BY <1>10 DEF Kept
  <2>1. Entries(m) \subseteq Bitmaps BY <2>0 DEF Table, R!Open
  <2>2. \A k \in DOMAIN m.atlas : Members(m, k) \subseteq (Tiles \cap R!Open(m)) \cup {R!Freed}
    BY <2>0 DEF Bound
  <2>3. Table(n)
    <3>1. ASSUME NEW b \in Bitmaps \ R!Open(n) PROVE n.bmp[b] = R!Closed
      <4>1. b \notin R!Open(m) /\ m.bmp[b] = R!Closed BY <1>8, <2>0, <3>1 DEF Table
      <4>2. \A k \in DOMAIN m.atlas : b \notin Members(m, k) BY <2>2, <4>1, Places_
      <4> QED BY <1>5, <1>7, <4>1, <4>2
    <3>2. \A b \in n.blank : b \in Bitmaps /\ n.bmp[b].obj = 0 BY <1>5, <1>7, <2>0 DEF Table, MemType
    <3> QED BY <1>7, <1>8, <2>0, <3>1, <3>2 DEF Table
  <2>4. Held(n) BY <1>5, <1>7, <2>0 DEF Held
  <2>5. Filled(n) BY <1>5, <1>7, <1>8, <2>0, <2>1 DEF Filled
  <2>6. Bound(n, lf)
    <3>1. ASSUME NEW e \in Entries(n), n.bmp[e].on # 0 PROVE e \in Tiles /\ n.bmp[e].on \in Ids(n)
      <4>1. e \in Entries(m) /\ e \in Bitmaps BY <1>8, <2>1
      <4>2. CASE n.bmp[e] = m.bmp[e] BY <1>8, <2>0, <3>1, <4>1, <4>2 DEF Bound
      <4>3. CASE \E k \in DOMAIN m.atlas : e \in Members(m, k) /\ n.bmp[e].on = m.atlas[k].id
        <5>1. PICK k \in DOMAIN m.atlas : e \in Members(m, k) /\ n.bmp[e].on = m.atlas[k].id BY <4>3
        <5>2. e \in Tiles BY <2>2, <4>1, <5>1, Places_
        <5> QED BY <1>8, <5>1, <5>2 DEF Ids
      <4> QED BY <1>5, <1>7, <4>1, <4>2, <4>3
    <3> QED BY <1>8, <2>0, <3>1 DEF Bound
  <2> QED BY <2>3, <2>4, <2>5, <2>6 DEF Kept
<1> QED BY <1>7, <1>9, <1>10 DEF n

\* Everything in the table is loaded again, each into an object of its own.
LEMMA ReloadKeeps ==
  ASSUME NEW m \in MemType, NEW lf
  PROVE  LET v == R!ReloadResources(m) IN
           /\ v \in MemType /\ v.stale = m.stale
           /\ Void(m, lf) => Kept(v, lf) /\ Alike(m, v) /\ v.atlas = m.atlas
<1> DEFINE seq == m.entry
           n == Len(seq)
           S == 1 .. n
           Again(v, b) == IF b = R!Freed THEN v ELSE R!NewObject(v, b)
           F == [p \in MemType \X S |-> Again(p[1], seq[p[2]])]
           Own(v, b) == /\ v.bmp[b].open /\ v.bmp[b].on = 0 /\ v.bmp[b].obj # 0
                        /\ \A c \in Bitmaps \ {b} : v.bmp[c].obj # v.bmp[b].obj
           Good(T, v) ==
             /\ v.stale = m.stale
             /\ Void(m, lf) =>
                  /\ v.entry = seq /\ v.crowded = m.crowded /\ v.blank = m.blank
                  /\ v.atlas = m.atlas /\ Held(v)
                  /\ \A b \in Bitmaps : IF b \in {seq[i] : i \in T} THEN Own(v, b) ELSE v.bmp[b] = m.bmp[b]
           Q == {p \in (SUBSET S) \X MemType : Good(p[1], p[2])}
           iter[T \in SUBSET S] ==
             IF T = {} THEN m ELSE LET t == R!Max(T) IN Again(iter[T \ {t}], seq[t])
<1>0. seq \in Seq(Places) /\ n \in Nat /\ DOMAIN seq = S /\ \A i \in S : seq[i] \in Places
  BY DEF MemType
<1>1. F \in [MemType \X S -> MemType]
  <2> SUFFICES ASSUME NEW v \in MemType, NEW i \in S PROVE Again(v, seq[i]) \in MemType
    OBVIOUS
  <2>1. CASE seq[i] = R!Freed BY <2>1
  <2>2. CASE seq[i] # R!Freed
    <3>1. seq[i] \in Bitmaps BY <1>0, <2>2 DEF Places
    <3> QED BY <2>2, <3>1, ObjectMade
  <2> QED BY <2>1, <2>2
<1>2. PICK g \in [SUBSET S -> MemType] : Folded(g, n, MemType, m, F)
  <2> HIDE DEF F, n
  <2> QED BY <1>0, <1>1, FoldMade
<1>3. \A T \in SUBSET S : T # {} => R!Max(T) \in T BY <1>0, GreatestOf
<1>4. g = [T \in SUBSET S |-> IF T = {} THEN m ELSE LET t == R!Max(T) IN Again(g[T \ {t}], seq[t])]
  <2>1. ASSUME NEW T \in SUBSET S, T # {} PROVE g[T] = Again(g[T \ {R!Max(T)}], seq[R!Max(T)])
    <3> DEFINE t == R!Max(T)
    <3>1. t \in S /\ T \ {t} \in SUBSET S BY <1>3, <2>1
    <3> HIDE DEF t, S, F, Again
    <3>2. g[T \ {t}] \in MemType BY <3>1
    <3>3. g[T] = F[<<g[T \ {t}], t>>] BY <1>2, <2>1, <3>2 DEF Folded, S, t
    <3> QED BY <3>1, <3>2, <3>3 DEF F, t
  <2>2. g[{}] = m BY <1>2 DEF Folded
  <2> HIDE DEF S, F, Again
  <2> QED BY <2>1, <2>2
<1>5. iter = [T \in SUBSET S |-> IF T = {} THEN m ELSE LET t == R!Max(T) IN Again(iter[T \ {t}], seq[t])]
  <2> HIDE DEF S, F, Again
  <2> QED BY <1>4, Zenon
<1>6. R!ReloadResources(m) = iter[S]
  <2> USE DEF R!FoldLeft, R!MapThenFoldSet
  <2>1. iter[DOMAIN seq] = iter[S] BY <1>0
  <2> QED BY <1>0, Zenon DEF R!ReloadResources
<1> HIDE DEF iter
<1>7. Folded(iter, n, MemType, m, F)
  <2>1. iter[{}] = m BY <1>5
  <2>2. ASSUME NEW T \in SUBSET S, T # {}, iter[T \ {R!Max(T)}] \in MemType
        PROVE iter[T] = F[<<iter[T \ {R!Max(T)}], R!Max(T)>>]
    <3> DEFINE t == R!Max(T)
    <3>1. t \in S BY <1>3, <2>2
    <3>2. iter[T] = Again(iter[T \ {t}], seq[t])
      <4> HIDE DEF Again
      <4> QED BY <1>5, <2>2
    <3> HIDE DEF t, S, Again
    <3>3. iter[T \ {t}] \in MemType BY <2>2 DEF t
    <3> QED BY <3>1, <3>2, <3>3 DEF t
  <2> QED BY <2>1, <2>2 DEF Folded
<1>8. <<{}, m>> \in Q
  <2>1. Good({}, m) BY DEF Void
  <2> HIDE DEF Good
  <2> QED BY <2>1
<1>9. ASSUME NEW T \in SUBSET S, NEW v \in MemType, T # {}, <<T \ {R!Max(T)}, v>> \in Q
      PROVE  <<T, F[<<v, R!Max(T)>>]>> \in Q
  <2> DEFINE t == R!Max(T)
             b == seq[t]
             w == Again(v, b)
  <2>1. t \in T /\ t \in S BY <1>3, <1>9
  <2>2. Good(T \ {t}, v) BY <1>9
  <2>3. F[<<v, t>>] = w
    <3> HIDE DEF Again, t
    <3> QED BY <2>1
  <2>4. w \in MemType
    <3>1. F[<<v, t>>] \in MemType
      <4> HIDE DEF F, t
      <4> QED BY <1>1, <2>1
    <3> QED BY <2>3, <3>1
  <2>5. ASSUME Void(m, lf)
        PROVE  /\ w.entry = seq /\ w.crowded = m.crowded /\ w.blank = m.blank
               /\ w.atlas = m.atlas /\ Held(w)
               /\ \A c \in Bitmaps : IF c \in {seq[i] : i \in T} THEN Own(w, c) ELSE w.bmp[c] = m.bmp[c]
    <3>1. /\ v.entry = seq /\ v.crowded = m.crowded /\ v.blank = m.blank
          /\ v.atlas = m.atlas /\ Held(v)
          /\ \A c \in Bitmaps : IF c \in {seq[i] : i \in T \ {t}} THEN Own(v, c) ELSE v.bmp[c] = m.bmp[c]
      BY <2>2, <2>5
    <3>2. /\ b \in Entries(m) /\ Entries(m) \subseteq Bitmaps /\ R!Freed \notin Bitmaps
          /\ \A i, j \in DOMAIN seq : i # j => seq[i] # seq[j]
      BY <1>0, <2>1, <2>5, Places_ DEF Void, Table, Entries, R!Open
    <3>3. b \in Bitmaps /\ m.bmp[b].obj = 0 /\ w = R!NewObject(v, b)
      BY <2>5, <3>2 DEF Void, Voided
    <3>4. \A i \in T \ {t} : seq[i] # b BY <1>0, <2>1, <3>2
    <3> HIDE DEF t, b, w, F, Good, Q
    <3>5. PICK o \in Nat \ v.live :
           /\ o # 0
           /\ R!NewObject(v, b) = [v EXCEPT !.bmp = [@ EXCEPT ![b] = [open |-> TRUE, obj |-> o, on |-> 0]],
                                            !.live = @ \cup {o}]
           /\ R!NewObject(v, b) \in MemType
      BY <3>3, ObjectMade
    <3> DEFINE new == [open |-> TRUE, obj |-> o, on |-> 0]
    <3>6. /\ w.entry = v.entry /\ w.crowded = v.crowded /\ w.blank = v.blank /\ w.atlas = v.atlas
          /\ w.stale = v.stale /\ w.live = v.live \cup {o} /\ w.bmp = [v.bmp EXCEPT ![b] = new]
      BY <3>3, <3>5 DEF MemType
    <3>7. v.bmp \in [Bitmaps -> Pixels] BY DEF MemType
    <3>8. /\ w.bmp[b].open /\ w.bmp[b].obj = o /\ w.bmp[b].on = 0
          /\ \A c \in Bitmaps \ {b} : w.bmp[c] = v.bmp[c]
      BY <3>3, <3>6, <3>7
    <3>9. v.bmp[b] = m.bmp[b] BY <3>1, <3>3, <3>4
    <3>10. \A c \in Bitmaps : v.bmp[c].obj # o
      <4>1. \A c \in Bitmaps : v.bmp[c].obj # 0 => v.bmp[c].obj \in v.live BY <3>1 DEF Held
      <4> QED BY <3>5, <4>1
    <3>11. Held(w)
      <4>1. 0 \notin w.live BY <3>1, <3>5, <3>6 DEF Held
      <4>2. \A c \in Bitmaps : w.bmp[c].obj # 0 => w.bmp[c].obj \in w.live BY <3>1, <3>6, <3>8 DEF Held
      <4>3. ASSUME NEW q \in w.live PROVE \E c \in Bitmaps : w.bmp[c].obj = q
        <5>1. CASE q = o BY <3>3, <3>8, <5>1
        <5>2. CASE q # o
          <6>1. PICK c \in Bitmaps : v.bmp[c].obj = q BY <3>1, <3>6, <4>3, <5>2 DEF Held
          <6>2. c # b BY <3>3, <3>9, <4>1, <4>3, <6>1
          <6> QED BY <3>8, <6>1, <6>2
        <5> QED BY <5>1, <5>2
      <4> QED BY <4>1, <4>2, <4>3 DEF Held
    <3>12. Own(w, b) BY <3>5, <3>8, <3>10
    <3>13. ASSUME NEW c \in Bitmaps \ {b}, Own(v, c) PROVE Own(w, c)
      <4>1. w.bmp[c] = v.bmp[c] BY <3>8
      <4>2. ASSUME NEW e \in Bitmaps \ {c} PROVE w.bmp[e].obj # w.bmp[c].obj
        <5>1. CASE e = b BY <3>8, <3>10, <4>1, <5>1
        <5>2. CASE e # b BY <3>8, <3>13, <4>1, <5>2
        <5> QED BY <5>1, <5>2
      <4> QED BY <3>13, <4>1, <4>2
    <3>14. ASSUME NEW c \in Bitmaps PROVE IF c \in {seq[i] : i \in T} THEN Own(w, c) ELSE w.bmp[c] = m.bmp[c]
      <4>1. CASE c = b
        <5>1. c \in {seq[i] : i \in T} BY <2>1, <4>1 DEF b
        <5> QED BY <3>12, <4>1, <5>1
      <4>2. CASE c # b
        <5>1. c \in {seq[i] : i \in T} <=> c \in {seq[i] : i \in T \ {t}} BY <4>2 DEF b
        <5>2. IF c \in {seq[i] : i \in T \ {t}} THEN Own(v, c) ELSE v.bmp[c] = m.bmp[c] BY <3>1
        <5>3. w.bmp[c] = v.bmp[c] BY <3>8, <4>2
        <5> HIDE DEF Own
        <5> QED BY <3>13, <4>2, <5>1, <5>2, <5>3
      <4> QED BY <4>1, <4>2
    <3> HIDE DEF Own
    <3> QED BY <3>1, <3>6, <3>11, <3>14
  <2>8. w.stale = v.stale
    <3>1. CASE b = R!Freed BY <3>1
    <3>2. CASE b # R!Freed
      <4>1. b \in Bitmaps /\ w = R!NewObject(v, b) BY <1>0, <2>1, <3>2 DEF Places
      <4>2. R!NewObject(v, b).stale = v.stale
        <5> HIDE DEF b
        <5> QED BY DEF R!NewObject, MemType
      <4> HIDE DEF b, w
      <4> QED BY <4>1, <4>2
    <3> QED BY <3>1, <3>2
  <2>9. v.stale = m.stale BY <2>2
  <2>6. Good(T, w) BY <2>5, <2>8, <2>9
  <2> HIDE DEF Good, w
  <2>7. F[<<v, R!Max(T)>>] = w BY <2>3
  <2> QED BY <2>4, <2>6, <2>7
<1> DEFINE r == iter[S]
<1>10. r \in MemType /\ <<S, r>> \in Q
  <2> HIDE DEF F, Q, n
  <2> QED BY <1>0, <1>1, <1>7, <1>8, <1>9, FoldKeeps
<1>11. Good(S, r) BY <1>10
<1> HIDE DEF r
<1>12. ASSUME Void(m, lf) PROVE Kept(r, lf) /\ Alike(m, r) /\ r.atlas = m.atlas
  <2> DEFINE E == {seq[i] : i \in S}
  <2>1. /\ r.entry = seq /\ r.crowded = m.crowded /\ r.blank = m.blank
        /\ r.atlas = m.atlas /\ r.stale = m.stale /\ Held(r)
        /\ \A b \in Bitmaps : IF b \in E THEN Own(r, b) ELSE r.bmp[b] = m.bmp[b]
    BY <1>11, <1>12
  <2>2. E = Entries(m) /\ Entries(r) = E BY <1>0, <2>1 DEF Entries
  <2>3. Ids(r) = Ids(m) /\ \A k : Members(r, k) = Members(m, k) BY <2>1 DEF Ids, Members
  <2>4. Table(m) /\ Bound(m, lf) /\ E \subseteq Bitmaps BY <1>12, <2>2 DEF Void, Table, R!Open
  <2> HIDE DEF E, Good, Q, F, S, n
  <2>5. R!Open(r) = R!Open(m)
    <3>1. \A b \in Bitmaps : r.bmp[b].open <=> m.bmp[b].open
      BY <2>1, <2>2, <2>4 DEF Table, R!Open
    <3> QED BY <3>1 DEF R!Open
  <2>6. Table(r)
    <3>1. \A b \in Bitmaps \ R!Open(r) : r.bmp[b] = R!Closed BY <2>1, <2>2, <2>4, <2>5 DEF Table
    <3>2. \A b \in r.blank : r.bmp[b].obj = 0
      <4>1. \A b \in m.blank : b \in Bitmaps /\ b \notin E BY <2>2, <2>4 DEF Table, MemType
      <4> QED BY <2>1, <2>4, <4>1 DEF Table
    <3> QED BY <2>1, <2>2, <2>4, <2>5, <3>1, <3>2 DEF Table
  <2>7. Filled(r) BY <2>1, <2>2, <2>4 DEF Filled
  <2>8. Bound(r, lf)
    <3>1. \A e \in Entries(r) : r.bmp[e].on = 0 BY <2>1, <2>2, <2>4
    <3> QED BY <2>1, <2>3, <2>4, <2>5, <3>1 DEF Bound
  <2> QED BY <2>1, <2>3, <2>5, <2>6, <2>7, <2>8 DEF Kept, Alike
<1>13. R!ReloadResources(m) = r BY <1>6 DEF r
<1>14. r.stale = m.stale BY <1>11
<1> HIDE DEF Good, Q
<1> QED BY <1>10, <1>12, <1>13, <1>14

-----------------------------------------------------------------------------
(* What the program does to them.                                           *)

LEMMA TilesListed ==
  \E n \in Nat : LET seq == R!SetToSeq(Tiles) IN
    /\ seq \in [1 .. n -> Tiles] /\ \A i, j \in 1 .. n : i # j => seq[i] # seq[j]
    /\ {seq[i] : i \in 1 .. n} = Tiles /\ seq \in Seq(Tiles) /\ Len(seq) = n
<1> DEFINE n == R!Cardinality(Tiles)
           seq == R!SetToSeq(Tiles)
<1>1. IsFiniteSet(Tiles) BY Places_, FS_Subset
<1>2. n = Cardinality(Tiles) BY DEF R!Cardinality, Cardinality
<1>3. n \in Nat /\ ExistsBijection(1 .. n, Tiles) BY <1>1, <1>2, FS_CardinalityType
<1>4. seq = CHOOSE f \in [1 .. n -> Tiles] : R!IsInjective(f) BY DEF R!SetToSeq
<1> HIDE DEF n, seq
<1>5. \E f \in [1 .. n -> Tiles] : R!IsInjective(f)
  <2>1. PICK f \in Bijection(1 .. n, Tiles) : TRUE BY <1>3 DEF ExistsBijection
  <2>2. f \in [1 .. n -> Tiles] /\ \A p, q \in 1 .. n : f[p] = f[q] => p = q
    BY <2>1 DEF Bijection, Injection, IsInjective
  <2> QED BY <2>2 DEF R!IsInjective
<1>6. seq \in [1 .. n -> Tiles] /\ R!IsInjective(seq) BY <1>4, <1>5
<1>7. \A p, q \in 1 .. n : seq[p] = seq[q] => p = q BY <1>6 DEF R!IsInjective
<1>8. {seq[p] : p \in 1 .. n} = Tiles
  <2>1. seq \in Injection(1 .. n, Tiles) BY <1>6, <1>7 DEF Injection, IsInjective
  <2>2. Cardinality(1 .. n) = n
    <3>1. 1 \in Int /\ n \in Int BY <1>3
    <3>2. Cardinality(1 .. n) = IF 1 > n THEN 0 ELSE n - 1 + 1 BY ONLY <3>1, FS_Interval
    <3> QED BY <1>3, <3>2
  <2>3. Cardinality(1 .. n) = Cardinality(Tiles) BY <1>2, <2>2
  <2>4. seq \in Surjection(1 .. n, Tiles) BY ONLY <1>1, <2>1, <2>3, FS_Injection
  <2>5. \A b \in Tiles : \E p \in 1 .. n : seq[p] = b BY <2>4 DEF Surjection
  <2> QED BY <1>6, <2>5
<1>9. seq \in Seq(Tiles) /\ Len(seq) = n BY <1>3, <1>6
<1> QED BY <1>3, <1>6, <1>7, <1>8, <1>9 DEF seq

LEMMA GiveUpKeeps ==
  ASSUME NEW m \in MemType, NEW lf
  PROVE  LET n == R!GiveUp(m) IN
           /\ n \in MemType /\ n.stale = m.stale
           /\ Kept(m, lf) \/ Void(m, lf) => Void(n, lf) /\ Alike(m, n)
<1>1. PICK u : u = R!UnloadAtlases(m) OBVIOUS
<1>2. u \in MemType /\ Alike(m, u) /\ (Kept(m, lf) => Kept(u, lf)) /\ (Void(m, lf) => Void(u, lf))
  BY <1>1, PagesGo
<1>3. PICK n : n = R!UnloadResources(u) OBVIOUS
<1>4. /\ n \in MemType /\ n.stale = u.stale
      /\ Kept(u, lf) \/ Void(u, lf) => Void(n, lf) /\ Alike(u, n)
  BY <1>2, <1>3, UnloadKeeps
<1>5. R!GiveUp(m) = n BY <1>1, <1>3 DEF R!GiveUp
<1> QED BY <1>2, <1>4, <1>5 DEF Alike

LEMMA RestoreKeeps ==
  ASSUME NEW m \in MemType, NEW lf
  PROVE  LET n == R!Restore(m) IN
           /\ n \in MemType /\ n.stale = m.stale
           /\ Void(m, lf) => Kept(n, lf) /\ Alike(m, n) /\ Pages(n)
<1>1. PICK u : u = R!ReloadResources(m) OBVIOUS
<1>2. u \in MemType /\ u.stale = m.stale /\ (Void(m, lf) => Kept(u, lf) /\ Alike(m, u)) BY <1>1, ReloadKeeps
<1>3. PICK n : n = R!RebuildAtlases(u) OBVIOUS
<1>4. n \in MemType /\ Alike(u, n) /\ Pages(n) /\ (Kept(u, lf) => Kept(n, lf))
  BY <1>2, <1>3, PagesReturn
<1>5. R!Restore(m) = n BY <1>1, <1>3 DEF R!Restore
<1> QED BY <1>2, <1>4, <1>5 DEF Alike

LEMMA RenewKeeps ==
  ASSUME NEW m \in MemType, NEW lf
  PROVE  LET n == R!Renew(m) IN
           /\ n \in MemType /\ n.stale = m.stale
           /\ Kept(m, lf) => Kept(n, lf) /\ Alike(m, n) /\ Pages(n)
<1>1. PICK u : u = R!GiveUp(m) OBVIOUS
<1>2. u \in MemType /\ u.stale = m.stale /\ (Kept(m, lf) => Void(u, lf) /\ Alike(m, u)) BY <1>1, GiveUpKeeps
<1>3. PICK n : n = R!Restore(u) OBVIOUS
<1>4. /\ n \in MemType /\ n.stale = u.stale
      /\ Void(u, lf) => Kept(n, lf) /\ Alike(u, n) /\ Pages(n)
  BY <1>2, <1>3, RestoreKeeps
<1>5. R!Renew(m) = n BY <1>1, <1>3 DEF R!Renew
<1> QED BY <1>2, <1>4, <1>5 DEF Alike

\* Unless there is no display left, what was there is there again.
LEMMA WindowKeeps ==
  ASSUME NEW m \in MemType, NEW lf, NEW done \in BOOLEAN, NEW made \in BOOLEAN
  PROVE  LET n == R!SetWindowSize(done, made, m) IN
           /\ n \in MemType /\ n.stale = m.stale
           /\ (done \/ made) /\ Kept(m, lf) /\ Pages(m) => Kept(n, lf) /\ Alike(m, n) /\ Pages(n)
<1>1. PICK u : u = R!SetGfxMode(done, made, m) OBVIOUS
<1>2. /\ u \in MemType /\ u.stale = m.stale
      /\ (done \/ made) /\ Kept(m, lf) /\ Pages(m) => Kept(u, lf) /\ Alike(m, u) /\ Pages(u)
  <2>1. R!Renew(m) \in MemType /\ R!Renew(m).stale = m.stale /\ (Kept(m, lf) => Kept(R!Renew(m), lf) /\ Alike(m, R!Renew(m)) /\ Pages(R!Renew(m)))
    BY RenewKeeps
  <2>2. R!GiveUp(m) \in MemType /\ R!GiveUp(m).stale = m.stale BY GiveUpKeeps
  <2>3. Alike(m, m) BY DEF Alike
  <2> QED BY <1>1, <2>1, <2>2, <2>3 DEF R!SetGfxMode
<1>3. PICK w : w = R!UnloadResources(u) OBVIOUS
<1>4. w \in MemType /\ w.stale = u.stale /\ (Kept(u, lf) => Void(w, lf) /\ Alike(u, w) /\ w.atlas = u.atlas)
  BY <1>2, <1>3, UnloadKeeps
<1>5. PICK v : v = R!ReloadResources(w) OBVIOUS
<1>6. v \in MemType /\ v.stale = w.stale /\ (Void(w, lf) => Kept(v, lf) /\ Alike(w, v) /\ v.atlas = w.atlas)
  BY <1>4, <1>5, ReloadKeeps
<1>7. R!SetWindowSize(done, made, m) = IF screen.windows THEN v ELSE u
  BY <1>1, <1>3, <1>5 DEF R!SetWindowSize
<1>8. ASSUME (done \/ made) /\ Kept(m, lf) /\ Pages(m) PROVE Kept(v, lf) /\ Alike(m, v) /\ Pages(v)
  BY <1>2, <1>4, <1>6, <1>8 DEF Alike, Pages
<1>9. v.stale = m.stale BY <1>2, <1>4, <1>6
<1> QED BY <1>2, <1>6, <1>7, <1>8, <1>9

\* A copy that is not in the table has what the original has.
LEMMA CloneKeeps ==
  ASSUME NEW m \in MemType, NEW b \in Bitmaps, ~m.bmp[b].open, NEW from \in R!Open(m), NEW lf
  PROVE  LET n == R!CloneAnimation(m, b, from) IN
           /\ n \in MemType /\ n.atlas = m.atlas /\ n.stale = m.stale
           /\ Kept(m, lf) => Kept(n, lf) /\ R!Open(n) = R!Open(m) \cup {b}
<1> DEFINE n == R!CloneAnimation(m, b, from)
<1>1. CASE R!Registered(m, from)
  <2>1. n = R!Load(m, b) BY <1>1 DEF R!CloneAnimation, R!CloneResource
  <2>2. n \in MemType /\ n.atlas = m.atlas /\ n.stale = m.stale
    <3> HIDE DEF n
    <3> QED BY <2>1, LoadMakes
  <2>3. Kept(m, lf) => Kept(n, lf) /\ R!Open(n) = R!Open(m) \cup {b}
    <3> HIDE DEF n
    <3> QED BY <2>1, LoadKeeps
  <2> QED BY <2>2, <2>3
<1>2. CASE ~R!Registered(m, from)
  <2>1. n = [m EXCEPT !.bmp[b] = m.bmp[from], !.crowded = @ \cup {b}] BY <1>2 DEF R!CloneAnimation
  <2>2. from \notin Entries(m) BY <1>2 DEF R!Registered, R!ToSet, Entries
  <2>3. m.bmp \in [Bitmaps -> Pixels] /\ from \in Bitmaps /\ m.bmp[from].open /\ b \notin R!Open(m)
    BY DEF MemType, R!Open
  <2> HIDE DEF n
  <2>4. /\ n \in MemType /\ n.atlas = m.atlas /\ n.stale = m.stale /\ n.entry = m.entry /\ n.live = m.live
        /\ n.crowded = m.crowded \cup {b} /\ n.blank = m.blank /\ n.bmp = [m.bmp EXCEPT ![b] = m.bmp[from]]
    BY <2>1, <2>3 DEF MemType
  <2>5. ASSUME Kept(m, lf) PROVE Kept(n, lf) /\ R!Open(n) = R!Open(m) \cup {b}
    <3>0. Table(m) /\ Held(m) /\ Filled(m) /\ Bound(m, lf) BY <2>5 DEF Kept
    <3>1. /\ n.bmp[b] = m.bmp[from] /\ from # b
          /\ \A c \in Bitmaps \ {b} : n.bmp[c] = m.bmp[c]
      BY <2>3, <2>4
    <3>2. R!Open(n) = R!Open(m) \cup {b} BY <2>3, <3>1 DEF R!Open
    <3>3. Entries(n) = Entries(m) /\ Ids(n) = Ids(m) /\ \A k : Members(n, k) = Members(m, k)
      BY <2>4 DEF Entries, Ids, Members
    <3>4. /\ b \notin Entries(m) /\ b \notin m.blank /\ m.bmp[b].obj = 0 /\ Entries(m) \subseteq Bitmaps
          /\ m.blank \subseteq Bitmaps
      BY <2>3, <3>0 DEF Table, R!Closed, R!Open, MemType
    <3>5. Table(n)
      <4>1. \A c \in Bitmaps \ R!Open(n) : n.bmp[c] = R!Closed BY <3>0, <3>1, <3>2 DEF Table
      <4>2. \A c \in n.blank : n.bmp[c].obj = 0 BY <2>4, <3>0, <3>1, <3>4 DEF Table
      <4>3. R!Open(n) = Entries(n) \cup n.crowded \cup n.blank BY <2>4, <3>0, <3>2, <3>3 DEF Table
      <4>4. Entries(n) \cap (n.crowded \cup n.blank) = {} BY <2>4, <3>0, <3>3, <3>4 DEF Table
      <4> QED BY <2>4, <3>0, <4>1, <4>2, <4>3, <4>4 DEF Table
    <3>6. Held(n)
      <4>1. \A c \in Bitmaps : n.bmp[c].obj # 0 => n.bmp[c].obj \in n.live
        BY <2>3, <2>4, <3>0, <3>1 DEF Held
      <4>2. ASSUME NEW q \in n.live PROVE \E c \in Bitmaps : n.bmp[c].obj = q
        <5>1. PICK c \in Bitmaps : m.bmp[c].obj = q BY <2>4, <3>0 DEF Held
        <5>2. q # 0 BY <2>4, <3>0 DEF Held
        <5>3. c # b BY <3>4, <5>1, <5>2
        <5> QED BY <3>1, <5>1, <5>3
      <4> QED BY <2>4, <3>0, <4>1, <4>2 DEF Held
    <3>7. Filled(n)
      <4> SUFFICES ASSUME NEW e \in Entries(m)
                   PROVE n.bmp[e].obj # 0 /\ \A c \in Bitmaps \ {e} : n.bmp[c].obj # n.bmp[e].obj
        BY <3>3 DEF Filled
      <4>1. e # b /\ e # from /\ e \in Bitmaps BY <2>2, <3>4
      <4>2. m.bmp[e].obj # 0 /\ \A c \in Bitmaps \ {e} : m.bmp[c].obj # m.bmp[e].obj
        BY <3>0 DEF Filled
      <4> QED BY <2>3, <3>1, <4>1, <4>2
    <3>8. Bound(n, lf)
      <4>1. \A e \in Entries(n) : n.bmp[e] = m.bmp[e] BY <3>1, <3>3, <3>4
      <4>2. \A e \in Entries(n) : n.bmp[e].on # 0 => e \in Tiles /\ n.bmp[e].on \in Ids(n)
        BY <3>0, <3>3, <4>1 DEF Bound
      <4>3. \A k \in DOMAIN n.atlas : /\ Members(n, k) \subseteq (Tiles \cap R!Open(n)) \cup {R!Freed}
                                      /\ R!Freed \in Members(n, k) => n.atlas[k].id \in lf
        BY <2>4, <3>0, <3>2, <3>3 DEF Bound
      <4> QED BY <2>4, <3>0, <3>3, <4>2, <4>3 DEF Bound
    <3> QED BY <3>2, <3>5, <3>6, <3>7, <3>8 DEF Kept
  <2> QED BY <2>4, <2>5 DEF n
<1> QED BY <1>1, <1>2

\* A font whose file is not there has no letters, and no place in the table.
LEMMA BlankKeeps ==
  ASSUME NEW m \in MemType, NEW b \in Bitmaps, ~m.bmp[b].open, NEW lf
  PROVE  LET n == [m EXCEPT !.bmp[b].open = TRUE, !.blank = @ \cup {b}] IN
           /\ n \in MemType /\ n.atlas = m.atlas /\ n.stale = m.stale
           /\ Kept(m, lf) => Kept(n, lf) /\ R!Open(n) = R!Open(m) \cup {b}
<1> DEFINE px == [m.bmp[b] EXCEPT !.open = TRUE]
           n == [m EXCEPT !.bmp[b].open = TRUE, !.blank = @ \cup {b}]
<1>1. m.bmp \in [Bitmaps -> Pixels] /\ b \notin R!Open(m) BY DEF MemType, R!Open
<1>2. px \in Pixels /\ px.open /\ px.obj = m.bmp[b].obj /\ px.on = m.bmp[b].on
  BY <1>1 DEF Pixels
<1>3. n = [m EXCEPT !.bmp = [@ EXCEPT ![b] = px], !.blank = @ \cup {b}] BY <1>1 DEF MemType
<1> HIDE DEF px, n
<1>4. /\ n \in MemType /\ n.atlas = m.atlas /\ n.stale = m.stale /\ n.entry = m.entry /\ n.live = m.live
      /\ n.crowded = m.crowded /\ n.blank = m.blank \cup {b} /\ n.bmp = [m.bmp EXCEPT ![b] = px]
  BY <1>1, <1>2, <1>3 DEF MemType
<1>5. ASSUME Kept(m, lf) PROVE Kept(n, lf) /\ R!Open(n) = R!Open(m) \cup {b}
  <2>0. Table(m) /\ Held(m) /\ Filled(m) /\ Bound(m, lf) BY <1>5 DEF Kept
  <2>1. /\ n.bmp[b].open /\ n.bmp[b].obj = m.bmp[b].obj
        /\ \A c \in Bitmaps : n.bmp[c].obj = m.bmp[c].obj
        /\ \A c \in Bitmaps \ {b} : n.bmp[c] = m.bmp[c]
    BY <1>1, <1>2, <1>4
  <2>2. R!Open(n) = R!Open(m) \cup {b} BY <1>1, <2>1 DEF R!Open
  <2>3. Entries(n) = Entries(m) /\ Ids(n) = Ids(m) /\ \A k : Members(n, k) = Members(m, k)
    BY <1>4 DEF Entries, Ids, Members
  <2>4. b \notin Entries(m) /\ m.bmp[b].obj = 0 /\ Entries(m) \subseteq Bitmaps
    BY <1>1, <2>0 DEF Table, R!Closed, R!Open
  <2>5. Table(n)
    <3>1. \A c \in Bitmaps \ R!Open(n) : n.bmp[c] = R!Closed BY <2>0, <2>1, <2>2 DEF Table
    <3>2. \A c \in n.blank : n.bmp[c].obj = 0
      <4>1. \A c \in m.blank : c \in Bitmaps /\ m.bmp[c].obj = 0 BY <2>0 DEF Table, MemType
      <4> QED BY <1>4, <2>1, <2>4, <4>1
    <3>3. R!Open(n) = Entries(n) \cup n.crowded \cup n.blank BY <1>4, <2>0, <2>2, <2>3 DEF Table
    <3>4. Entries(n) \cap (n.crowded \cup n.blank) = {} BY <1>4, <2>0, <2>3, <2>4 DEF Table
    <3> QED BY <1>4, <2>0, <3>1, <3>2, <3>3, <3>4 DEF Table
  <2>6. Held(n) BY <1>4, <2>0, <2>1 DEF Held
  <2>7. Filled(n) BY <2>0, <2>1, <2>3, <2>4 DEF Filled
  <2>8. Bound(n, lf)
    <3>1. \A e \in Entries(n) : n.bmp[e] = m.bmp[e] BY <2>1, <2>3, <2>4
    <3>2. \A e \in Entries(n) : n.bmp[e].on # 0 => e \in Tiles /\ n.bmp[e].on \in Ids(n)
      BY <2>0, <2>3, <3>1 DEF Bound
    <3>3. \A k \in DOMAIN n.atlas : /\ Members(n, k) \subseteq (Tiles \cap R!Open(n)) \cup {R!Freed}
                                    /\ R!Freed \in Members(n, k) => n.atlas[k].id \in lf
      BY <1>4, <2>0, <2>2, <2>3 DEF Bound
    <3> QED BY <1>4, <2>0, <2>3, <3>2, <3>3 DEF Bound
  <2> QED BY <2>2, <2>5, <2>6, <2>7, <2>8 DEF Kept
<1> QED BY <1>4, <1>5 DEF n

LEMMA IdsFinite ==
  ASSUME NEW m \in MemType
  PROVE  Ids(m) \in SUBSET Nat /\ IsFiniteSet(Ids(m))
<1> DEFINE n == Len(m.atlas)
           f == [k \in 1 .. n |-> m.atlas[k].id]
<1>1. m.atlas \in Seq(Atlas) /\ DOMAIN m.atlas = 1 .. n /\ n \in Nat BY DEF MemType
<1>2. \A k \in 1 .. n : m.atlas[k].id \in Nat
  <2> SUFFICES ASSUME NEW k \in 1 .. n PROVE m.atlas[k].id \in Nat
    OBVIOUS
  <2>1. m.atlas[k] \in Atlas BY <1>1
  <2> QED BY <2>1 DEF Atlas
<1>3. Ids(m) \in SUBSET Nat BY <1>1, <1>2 DEF Ids
<1>4. IsFiniteSet(1 .. n) BY <1>1, GreatestOf
<1>5. f \in Surjection(1 .. n, Ids(m)) BY <1>1 DEF Ids, Surjection
<1> HIDE DEF n, f
<1> QED BY <1>3, <1>4, <1>5, FS_Surjection

\* The pages of a new atlas are those of tiles, which are open.
LEMMA TilesetKeeps ==
  ASSUME NEW m \in MemType, NEW lf
  PROVE  LET n == R!AtlasTileset(m)
             d == R!NewestAtlas(n)
         IN /\ n \in MemType /\ n.stale = m.stale /\ d \in Nat \ Ids(m) /\ d # 0
            /\ Ids(n) = Ids(m) \cup {d} /\ (Pages(m) => Pages(n)) /\ R!Open(n) = R!Open(m)
            /\ Tiles \subseteq R!Open(m) /\ Kept(m, lf) => Kept(n, lf)
<1> DEFINE d == R!Unused(Ids(m))
           new == [id |-> d, member |-> <<>>, page |-> TRUE]
           u == R!CreateAtlas(m)
           l == Len(m.atlas) + 1
           order == R!SetToSeq(Tiles)
           fit == SubSeq(order, 1, IF Room < Len(order) THEN Room ELSE Len(order))
           n == R!AtlasTileset(m)
<1>1. d \in Nat \ Ids(m) /\ d # 0 BY IdsFinite, FreshObject
<1>2. u = [m EXCEPT !.atlas = Append(@, new)] BY DEF R!CreateAtlas, Ids
<1>3. /\ m.atlas \in Seq(Atlas) /\ DOMAIN m.atlas = 1 .. Len(m.atlas) /\ Len(m.atlas) \in Nat
      /\ m.bmp \in [Bitmaps -> Pixels]
  BY DEF MemType
<1>4. new \in Atlas
  <2>1. <<>> \in Seq(Places) OBVIOUS
  <2> QED BY <1>1, <2>1 DEF Atlas
<1>5. fit \in Seq(Tiles) /\ fit \in Seq(Places) /\ R!ToSet(fit) \subseteq Tiles
  <2>1. order \in Seq(Tiles) /\ Len(order) \in Nat BY TilesListed
  <2>2. fit \in Seq(Tiles)
    <3> HIDE DEF order
    <3> QED BY <2>1, Places_
  <2> HIDE DEF fit
  <2>3. fit \in Seq(Places) BY <2>2, Places_ DEF Places
  <2>4. R!ToSet(fit) \subseteq Tiles BY <2>2 DEF R!ToSet
  <2> QED BY <2>2, <2>3, <2>4
<1> HIDE DEF d, order
<1> DEFINE ua == Append(m.atlas, new)
<1>6. /\ ua \in Seq(Atlas) /\ Len(ua) = l /\ ua[l] = new /\ DOMAIN ua = 1 .. l
      /\ \A k \in DOMAIN m.atlas : ua[k] = m.atlas[k] /\ k # l
      /\ l \in 1 .. l /\ 1 .. l = DOMAIN m.atlas \cup {l}
  <2> HIDE DEF new
  <2> QED BY <1>3, <1>4
<1> HIDE DEF ua, u, new, fit, n
<1>7. u = [m EXCEPT !.atlas = ua] BY <1>2 DEF ua
<1> DEFINE na == [ua EXCEPT ![l] = [new EXCEPT !.member = fit]]
           bm == [b \in Bitmaps |-> IF b \in R!ToSet(fit) THEN [m.bmp[b] EXCEPT !.on = d] ELSE m.bmp[b]]
<1>8. n = [m EXCEPT !.atlas = na, !.bmp = bm]
  <2>1. n = R!AddToAtlas(u, R!SetToSeq(Tiles)) BY DEF n, R!AtlasTileset, u
  <2>2. u.atlas = ua /\ u.bmp = m.bmp BY <1>7 DEF MemType
  <2>3. Len(u.atlas) = l BY <1>6, <2>2
  <2>4. n = R!PutOnAtlas([u EXCEPT !.atlas[l].member = fit], R!ToSet(fit), l)
    BY <2>1, <2>3 DEF R!AddToAtlas, fit, order
  <2> DEFINE w == [u EXCEPT !.atlas[l].member = fit]
  <2>5. w = [m EXCEPT !.atlas = na]
    <3>1. w = [u EXCEPT !.atlas = [ua EXCEPT ![l] = [ua[l] EXCEPT !.member = fit]]] BY <2>2, <1>7 DEF MemType
    <3> QED BY <3>1, <1>6, <1>7 DEF MemType
  <2>6. w.atlas[l].id = d
    <3>1. na[l] = [new EXCEPT !.member = fit] BY <1>6
    <3>2. na[l].id = d BY <3>1 DEF new
    <3> HIDE DEF w, na
    <3> QED BY <2>5, <3>2 DEF MemType
  <2>9. n = R!PutOnAtlas(w, R!ToSet(fit), l) BY <2>4
  <2> HIDE DEF w, na
  <2>7. n = [w EXCEPT !.bmp = [b \in Bitmaps |-> IF b \in R!ToSet(fit) THEN [w.bmp[b] EXCEPT !.on = d] ELSE w.bmp[b]]]
    BY <2>6, <2>9 DEF R!PutOnAtlas
  <2>8. w.bmp = m.bmp BY <2>5 DEF MemType
  <2> QED BY <2>5, <2>7, <2>8 DEF MemType
<1>9. /\ na \in Seq(Atlas) /\ DOMAIN na = DOMAIN m.atlas \cup {l} /\ l \notin DOMAIN m.atlas
      /\ \A k \in DOMAIN m.atlas : na[k] = m.atlas[k]
      /\ na[l].id = d /\ na[l].member = fit /\ na[l].page = TRUE /\ Len(na) = l
  <2> DEFINE at == [new EXCEPT !.member = fit]
  <2>1. at \in Atlas /\ at.id = d /\ at.member = fit /\ at.page = TRUE BY <1>4, <1>5 DEF Atlas, new
  <2>2. na = [ua EXCEPT ![l] = at] OBVIOUS
  <2>3. l \in Nat BY <1>3
  <2> HIDE DEF at, na, l
  <2>4. /\ na \in Seq(Atlas) /\ Len(na) = l /\ DOMAIN na = 1 .. l
        /\ na[l] = at /\ \A k \in 1 .. l : k # l => na[k] = ua[k]
    BY <1>6, <2>1, <2>2, <2>3
  <2> QED BY <1>6, <2>1, <2>4
<1>10. ASSUME NEW b \in Bitmaps
       PROVE  /\ bm[b] \in Pixels /\ bm[b].open = m.bmp[b].open /\ bm[b].obj = m.bmp[b].obj
              /\ bm[b] = m.bmp[b] \/ (b \in Tiles /\ bm[b].on = d)
  <2>1. m.bmp[b] \in Pixels BY <1>3
  <2> QED BY <1>1, <1>5, <2>1 DEF Pixels
<1>11. bm \in [Bitmaps -> Pixels] BY <1>10
<1> HIDE DEF na, bm, l
<1>12. /\ n \in MemType /\ n.atlas = na /\ n.bmp = bm /\ n.entry = m.entry /\ n.live = m.live
       /\ n.crowded = m.crowded /\ n.blank = m.blank /\ n.stale = m.stale
  BY <1>8, <1>9, <1>11 DEF MemType
<1>13. R!NewestAtlas(n) = d BY <1>9, <1>12 DEF R!NewestAtlas
<1>14. /\ Ids(n) = Ids(m) \cup {d} /\ Entries(n) = Entries(m) /\ R!Open(n) = R!Open(m)
       /\ \A k \in DOMAIN m.atlas : Members(n, k) = Members(m, k)
       /\ Members(n, l) \subseteq Tiles
  <2>1. Ids(n) = Ids(m) \cup {d} BY <1>9, <1>12 DEF Ids
  <2>2. Entries(n) = Entries(m) /\ R!Open(n) = R!Open(m) BY <1>10, <1>12 DEF Entries, R!Open
  <2>3. \A k \in DOMAIN m.atlas : Members(n, k) = Members(m, k) BY <1>9, <1>12 DEF Members
  <2>4. Members(n, l) \subseteq Tiles BY <1>5, <1>9, <1>12 DEF Members, R!ToSet
  <2> QED BY <2>1, <2>2, <2>3, <2>4
<1>15. Pages(m) => Pages(n) BY <1>9, <1>12 DEF Pages
<1>16. ASSUME Tiles \subseteq R!Open(m), Kept(m, lf) PROVE Kept(n, lf)
  <2>0. Table(m) /\ Held(m) /\ Filled(m) /\ Bound(m, lf) BY <1>16 DEF Kept
  <2>1. Entries(m) \subseteq Bitmaps BY <2>0 DEF Table, R!Open
  <2>2. Table(n)
    <3>1. ASSUME NEW b \in Bitmaps \ R!Open(n) PROVE n.bmp[b] = R!Closed
      <4>1. b \notin Tiles /\ m.bmp[b] = R!Closed BY <1>14, <1>16, <2>0, <3>1 DEF Table
      <4> QED BY <1>10, <1>12, <4>1
    <3>2. \A b \in n.blank : b \in Bitmaps /\ n.bmp[b].obj = 0 BY <1>10, <1>12, <2>0 DEF Table, MemType
    <3> QED BY <1>12, <1>14, <2>0, <3>1, <3>2 DEF Table
  <2>3. Held(n) BY <1>10, <1>12, <2>0 DEF Held
  <2>4. Filled(n) BY <1>10, <1>12, <1>14, <2>0, <2>1 DEF Filled
  <2>5. Bound(n, lf)
    <3>1. 0 \notin Ids(n) BY <1>1, <1>14, <2>0 DEF Bound
    <3>2. \A k \in DOMAIN m.atlas : m.atlas[k].id # d BY <1>1 DEF Ids
    <3>3. \A j, k \in DOMAIN n.atlas : j # k => n.atlas[j].id # n.atlas[k].id
      BY <1>9, <1>12, <2>0, <3>2 DEF Bound
    <3>4. ASSUME NEW k \in DOMAIN n.atlas
          PROVE  /\ Members(n, k) \subseteq (Tiles \cap R!Open(n)) \cup {R!Freed}
                 /\ R!Freed \in Members(n, k) => n.atlas[k].id \in lf
      <4>1. CASE k = l BY <1>14, <1>16, <4>1, Places_
      <4>2. CASE k # l
        <5>1. k \in DOMAIN m.atlas /\ n.atlas[k] = m.atlas[k] BY <1>9, <1>12, <3>4, <4>2
        <5> QED BY <1>14, <2>0, <5>1 DEF Bound
      <4> QED BY <4>1, <4>2
    <3>5. ASSUME NEW e \in Entries(n), n.bmp[e].on # 0 PROVE e \in Tiles /\ n.bmp[e].on \in Ids(n)
      <4>1. e \in Entries(m) /\ e \in Bitmaps BY <1>14, <2>1
      <4>2. CASE n.bmp[e] = m.bmp[e] BY <1>14, <2>0, <3>5, <4>1, <4>2 DEF Bound
      <4>3. CASE e \in Tiles /\ n.bmp[e].on = d BY <1>14, <4>3
      <4> QED BY <1>10, <1>12, <4>1, <4>2, <4>3
    <3> QED BY <3>1, <3>3, <3>4, <3>5 DEF Bound
  <2> QED BY <2>2, <2>3, <2>4, <2>5 DEF Kept
<1> QED BY <1>1, <1>12, <1>13, <1>14, <1>15, <1>16 DEF n

\* The tileset's atlas goes with its tiles.
LEMMA AtlasGoes ==
  ASSUME NEW m \in MemType, NEW d, NEW lf, NEW lg, NEW ids, lg \subseteq lf \cup {d}
  PROVE  LET n == R!DestroyAtlas(m, d) IN
           /\ n \in MemType /\ n.stale = m.stale /\ R!Open(n) = R!Open(m) /\ (Pages(m) => Pages(n))
           /\ Kept(m, lg) /\ Tiles \cap R!Open(m) = {} => Kept(n, lf) /\ Ids(n) = Ids(m) \ {d}
<1> DEFINE K == {k \in DOMAIN m.atlas : m.atlas[k].id = d}
           i == R!Least(K)
           n == R!DestroyAtlas(m, d)
<1>1. /\ m.atlas \in Seq(Atlas) /\ DOMAIN m.atlas = 1 .. Len(m.atlas) /\ Len(m.atlas) \in Nat
  BY DEF MemType
<1>2. ASSUME Kept(m, lg), Tiles \cap R!Open(m) = {}
      PROVE  \A e \in Entries(m) : m.bmp[e].on = 0
  <2>1. \A e \in Entries(m) : e \in R!Open(m) BY <1>2 DEF Kept, Table
  <2> QED BY <1>2, <2>1 DEF Kept, Bound
<1>3. CASE K = {}
  <2>1. n = m BY <1>3 DEF R!DestroyAtlas
  <2>2. d \notin Ids(m) BY <1>3 DEF Ids
  <2>3. ASSUME Kept(m, lg) PROVE Kept(m, lf)
    <3>1. \A k \in DOMAIN m.atlas : m.atlas[k].id # d BY <2>2 DEF Ids
    <3>2. Bound(m, lf) BY <2>3, <3>1 DEF Kept, Bound
    <3> QED BY <2>3, <3>2 DEF Kept
  <2> HIDE DEF n
  <2> QED BY <2>1, <2>2, <2>3 DEF n
<1>4. CASE K # {}
  <2>1. n = [m EXCEPT !.atlas = R!RemoveAt(@, i)] BY <1>4 DEF R!DestroyAtlas
  <2>2. K \in SUBSET Nat BY <1>1
  <2>3. i \in K
    <3> HIDE DEF K
    <3> QED BY <1>4, <2>2, LeastOf
  <2>4. i \in DOMAIN m.atlas /\ m.atlas[i].id = d
    <3> HIDE DEF i
    <3> QED BY <2>3
  <2> HIDE DEF i, K, n
  <2> DEFINE na == R!RemoveAt(m.atlas, i)
             D == DOMAIN m.atlas
             E == DOMAIN na
  <2>5. /\ na \in Seq(Atlas) /\ E = 1 .. (Len(m.atlas) - 1)
        /\ \A j \in E : na[j] = IF j < i THEN m.atlas[j] ELSE m.atlas[j + 1]
    BY <1>1, <2>4, Removed
  <2> HIDE DEF na
  <2>6. /\ n \in MemType /\ n.atlas = na /\ n.bmp = m.bmp /\ n.entry = m.entry /\ n.live = m.live
        /\ n.crowded = m.crowded /\ n.blank = m.blank /\ n.stale = m.stale
    BY <2>1, <2>5 DEF MemType, na
  <2>7. \A j \in E : \E k \in D : k # i /\ na[j] = m.atlas[k]
    <3> SUFFICES ASSUME NEW j \in E PROVE \E k \in D : k # i /\ na[j] = m.atlas[k]
      OBVIOUS
    <3>1. CASE j < i BY <1>1, <2>4, <2>5, <3>1
    <3>2. CASE ~(j < i)
      <4>1. j \in Nat /\ j + 1 \in D /\ j + 1 # i BY <1>1, <2>4, <2>5, <3>2
      <4>2. na[j] = m.atlas[j + 1] BY <2>5, <3>2
      <4> QED BY <4>1, <4>2
    <3> QED BY <3>1, <3>2
  <2>8. R!Open(n) = R!Open(m) /\ Entries(n) = Entries(m) BY <2>6 DEF R!Open, Entries
  <2>9. Pages(m) => Pages(n) BY <2>6, <2>7 DEF Pages
  <2>10. ASSUME Kept(m, lg), Tiles \cap R!Open(m) = {} PROVE Kept(n, lf) /\ Ids(n) = Ids(m) \ {d}
    <3>0. Table(m) /\ Held(m) /\ Filled(m) /\ Bound(m, lg) BY <2>10 DEF Kept
    <3>1. \A j, k \in D : j # k => m.atlas[j].id # m.atlas[k].id BY <3>0 DEF Bound
    <3>2. \A j \in E : na[j].id # d BY <2>4, <2>7, <3>1
    <3>3. \A k \in D : k # i => \E j \in E : na[j] = m.atlas[k]
      <4> SUFFICES ASSUME NEW k \in D, k # i PROVE \E j \in E : na[j] = m.atlas[k]
        OBVIOUS
      <4> DEFINE q == IF k < i THEN k ELSE k - 1
      <4>1. q \in E /\ k = IF q < i THEN q ELSE q + 1 BY <1>1, <2>4, <2>5
      <4>2. na[q] = m.atlas[k] BY <2>5, <4>1
      <4> HIDE DEF q
      <4> QED BY <4>1, <4>2
    <3>4. Ids(n) = Ids(m) \ {d}
      <4>1. Ids(n) = {na[j].id : j \in E} /\ Ids(m) = {m.atlas[k].id : k \in D} BY <2>6 DEF Ids
      <4> HIDE DEF D, E
      <4> QED BY <2>4, <2>7, <3>2, <3>3, <4>1
    <3>5. \A j, k \in E : j # k => na[j].id # na[k].id
      <4> SUFFICES ASSUME NEW j \in E, NEW k \in E, j # k PROVE na[j].id # na[k].id
        OBVIOUS
      <4> DEFINE a == IF j < i THEN j ELSE j + 1
                 b == IF k < i THEN k ELSE k + 1
      <4>1. a \in D /\ b \in D /\ a # b BY <1>1, <2>4, <2>5
      <4>2. na[j] = m.atlas[a] /\ na[k] = m.atlas[b] BY <2>5
      <4> HIDE DEF a, b
      <4> QED BY <3>1, <4>1, <4>2
    <3>6. Bound(n, lf)
      <4>1. 0 \notin Ids(n) BY <3>0, <3>4 DEF Bound
      <4>2. ASSUME NEW k \in DOMAIN n.atlas
            PROVE  /\ Members(n, k) \subseteq (Tiles \cap R!Open(n)) \cup {R!Freed}
                   /\ R!Freed \in Members(n, k) => n.atlas[k].id \in lf
        <5>1. PICK j \in D : n.atlas[k] = m.atlas[j] BY <2>6, <2>7, <4>2
        <5>2. Members(n, k) = Members(m, j) BY <5>1 DEF Members
        <5>3. n.atlas[k].id # d BY <2>6, <3>2, <4>2
        <5> QED BY <2>8, <3>0, <5>1, <5>2, <5>3 DEF Bound
      <4>3. \A e \in Entries(n) : n.bmp[e].on # 0 => e \in Tiles /\ n.bmp[e].on \in Ids(n)
        BY <1>2, <2>6, <2>8, <2>10
      <4> QED BY <2>6, <3>5, <4>1, <4>2, <4>3 DEF Bound
    <3>7. Table(n) /\ Held(n) /\ Filled(n) BY <2>6, <2>8, <3>0 DEF Table, Held, Filled
    <3> QED BY <3>4, <3>6, <3>7 DEF Kept
  <2> QED BY <2>6, <2>8, <2>9, <2>10 DEF n
<1> QED BY <1>3, <1>4

\* The tiles of a level are there while it is, and the atlases those of levels.
Placed(m, lv, lf) ==
  /\ lv \notin lf /\ Ids(m) = lf \cup ({lv} \ {0})
  /\ IF lv = 0 THEN Tiles \cap R!Open(m) = {} ELSE Tiles \subseteq R!Open(m)

\* While there is a display, and while there is none.
Sound(m, lv, lf)  == Kept(m, lf) /\ Placed(m, lv, lf) /\ Pages(m)
Hollow(m, lv, lf) == Void(m, lf) /\ Placed(m, lv, lf)

LEMMA PlacedAlike ==
  ASSUME NEW m, NEW n, NEW lv, NEW lf, Placed(m, lv, lf), Alike(m, n)
  PROVE  Placed(n, lv, lf)
BY DEF Placed, Alike

\* What comes or goes is none of the tiles.
LEMMA PlacedMore ==
  ASSUME NEW m, NEW n, NEW lv, NEW lf, Placed(m, lv, lf), NEW b, b \notin Tiles, Ids(n) = Ids(m),
         R!Open(n) = R!Open(m) \cup {b} \/ R!Open(n) = R!Open(m) \ {b}
  PROVE  Placed(n, lv, lf)
BY DEF Placed

LEMMA LevelComes ==
  ASSUME NEW m \in MemType, NEW lf \in SUBSET Nat
  PROVE  LET v == R!FoldLeft(R!Load, m, R!SetToSeq(Tiles))
             u == R!AtlasTileset(v)
             n == R!AtlasTileset(u)
             lg == lf \cup {R!NewestAtlas(u)}
         IN /\ n \in MemType /\ n.stale = m.stale /\ R!NewestAtlas(n) \in Nat /\ lg \in SUBSET Nat
            /\ Sound(m, 0, lf) => Sound(n, R!NewestAtlas(n), lg)
<1>1. PICK seq : seq = R!SetToSeq(Tiles) OBVIOUS
<1>2. PICK k \in Nat : /\ seq \in [1 .. k -> Tiles] /\ \A i, j \in 1 .. k : i # j => seq[i] # seq[j]
                       /\ {seq[i] : i \in 1 .. k} = Tiles
  BY <1>1, TilesListed
<1>3. PICK v : v = R!FoldLeft(R!Load, m, seq) OBVIOUS
<1>4. /\ v \in MemType /\ v.atlas = m.atlas /\ v.stale = m.stale
      /\ Kept(m, lf) /\ (\A i \in 1 .. k : ~m.bmp[seq[i]].open) =>
           Kept(v, lf) /\ R!Open(v) = R!Open(m) \cup {seq[i] : i \in 1 .. k}
  <2>1. seq \in [1 .. k -> Bitmaps] BY <1>2, Places_
  <2> QED BY <1>2, <1>3, <2>1, LoadsKeep
<1>5. PICK u, c : u = R!AtlasTileset(v) /\ c = R!NewestAtlas(u) OBVIOUS
<1>6. /\ u \in MemType /\ u.stale = v.stale /\ c \in Nat \ Ids(v) /\ c # 0
      /\ Ids(u) = Ids(v) \cup {c} /\ (Pages(v) => Pages(u)) /\ R!Open(u) = R!Open(v)
      /\ Tiles \subseteq R!Open(v) /\ Kept(v, lf) => Kept(u, lf)
  BY <1>4, <1>5, TilesetKeeps
<1>7. PICK n, d : n = R!AtlasTileset(u) /\ d = R!NewestAtlas(n) OBVIOUS
<1>8. /\ n \in MemType /\ n.stale = u.stale /\ d \in Nat \ Ids(u) /\ d # 0
      /\ Ids(n) = Ids(u) \cup {d} /\ (Pages(u) => Pages(n)) /\ R!Open(n) = R!Open(u)
      /\ Tiles \subseteq R!Open(u) /\ Kept(u, lf) => Kept(n, lf)
  BY <1>6, <1>7, TilesetKeeps
<1>9. ASSUME Sound(m, 0, lf) PROVE Sound(n, d, lf \cup {c})
  <2>1. Kept(m, lf) /\ Pages(m) /\ Ids(m) = lf /\ Tiles \cap R!Open(m) = {} BY <1>9 DEF Sound, Placed
  <2>2. \A i \in 1 .. k : ~m.bmp[seq[i]].open BY <1>2, <2>1, Places_ DEF R!Open
  <2>3. Kept(v, lf) /\ Tiles \subseteq R!Open(v) BY <1>2, <1>4, <2>1, <2>2
  <2>4. Ids(v) = Ids(m) /\ (Pages(m) => Pages(v)) BY <1>4 DEF Ids, Pages
  <2>5. Kept(n, lf) /\ Pages(n) /\ Tiles \subseteq R!Open(n) BY <1>6, <1>8, <2>1, <2>3, <2>4
  <2>6. lf \subseteq lf \cup {c} OBVIOUS
  <2>7. Kept(n, lf \cup {c}) BY <2>5, <2>6, KeptMore
  <2>8. Placed(n, d, lf \cup {c}) BY <1>6, <1>8, <2>1, <2>4, <2>5 DEF Placed
  <2> QED BY <2>5, <2>7, <2>8 DEF Sound
<1>10. lf \cup {c} \in SUBSET Nat BY <1>6
<1> QED BY <1>1, <1>3, <1>4, <1>5, <1>6, <1>7, <1>8, <1>9, <1>10

LEMMA LevelGoes ==
  ASSUME NEW m \in MemType, NEW lv \in Nat, NEW lf, lv # 0
  PROVE  LET n == R!DestroyAtlas(R!FoldLeft(R!Destroy, m, R!SetToSeq(Tiles)), lv) IN
           /\ n \in MemType /\ (~n.stale => ~m.stale)
           /\ Sound(m, lv, lf) /\ ~n.stale => Sound(n, 0, lf)
<1>1. PICK seq : seq = R!SetToSeq(Tiles) OBVIOUS
<1>2. PICK k \in Nat : /\ seq \in [1 .. k -> Tiles] /\ \A i, j \in 1 .. k : i # j => seq[i] # seq[j]
                       /\ {seq[i] : i \in 1 .. k} = Tiles
  BY <1>1, TilesListed
<1>3. PICK v : v = R!FoldLeft(R!Destroy, m, seq) OBVIOUS
<1>4. /\ v \in MemType /\ Ids(v) = Ids(m) /\ (Pages(m) => Pages(v))
      /\ ~v.stale => ~m.stale
      /\ ~v.stale /\ Kept(m, lf) /\ (\A i \in 1 .. k : m.bmp[seq[i]].open) =>
           Kept(v, lf \cup Ids(m)) /\ R!Open(v) = R!Open(m) \ {seq[i] : i \in 1 .. k}
  BY <1>2, <1>3, DestroysKeep, ZenonT(40)
<1>5. PICK lg : lg = IF Ids(m) = lf \cup {lv} THEN lf \cup Ids(m) ELSE lf OBVIOUS
<1>6. lg \subseteq lf \cup {lv} BY <1>5
<1>7. PICK n : n = R!DestroyAtlas(v, lv) OBVIOUS
<1>8. /\ n \in MemType /\ n.stale = v.stale /\ R!Open(n) = R!Open(v) /\ (Pages(v) => Pages(n))
      /\ Kept(v, lg) /\ Tiles \cap R!Open(v) = {} => Kept(n, lf) /\ Ids(n) = Ids(v) \ {lv}
  BY <1>4, <1>6, <1>7, AtlasGoes
<1>9. ASSUME Sound(m, lv, lf), ~n.stale PROVE Sound(n, 0, lf)
  <2>1. /\ Kept(m, lf) /\ Pages(m) /\ Ids(m) = lf \cup {lv} /\ Tiles \subseteq R!Open(m) /\ lv \notin lf
        /\ 0 \notin Ids(m)
    BY <1>9 DEF Sound, Placed, Kept, Bound
  <2>2. \A i \in 1 .. k : m.bmp[seq[i]].open BY <1>2, <2>1 DEF R!Open
  <2>3. Kept(v, lg) /\ Tiles \cap R!Open(v) = {} BY <1>2, <1>4, <1>5, <1>8, <1>9, <2>1, <2>2
  <2>4. Placed(n, 0, lf) BY <1>4, <1>8, <2>1, <2>3 DEF Placed
  <2> QED BY <1>4, <1>8, <2>1, <2>3, <2>4 DEF Sound
<1> QED BY <1>1, <1>3, <1>4, <1>7, <1>8, <1>9

-----------------------------------------------------------------------------
(* The queue of events, and what holds in every turn of the loop.           *)

Events     == {"TIMER", "HALT", "RESUME", "FOUND", "RESIZE"}
ScreenType == [windows : BOOLEAN, up : BOOLEAN, heard : BOOLEAN, full : BOOLEAN,
               timer : BOOLEAN, halted : {0, 2}, followed : BOOLEAN]

\* A halt is the last thing the display says before it waits, a resume the last
\* before it goes on.
InTurn(q, halted) ==
  /\ q \in Seq(Events)
  /\ \A i, j \in DOMAIN q : i < j => /\ q[i] = "HALT" => q[j] = "TIMER"
                                     /\ q[i] = "RESUME" => q[j] # "RESUME"
  /\ \A i \in DOMAIN q : IF halted = 0 THEN q[i] # "RESUME" ELSE q[i] \in {"TIMER", "RESUME"}

AsItIs(m, lv, lf, halted) == IF halted = 0 THEN Sound(m, lv, lf) ELSE Hollow(m, lv, lf)

BitmapsInv ==
  /\ mem \in MemType /\ level \in Nat /\ left \in SUBSET Nat /\ strayed \in BOOLEAN
  /\ screen \in ScreenType /\ InTurn(queue, screen.halted)
  /\ screen.up /\ ~screen.followed /\ ~strayed /\ ~mem.stale => AsItIs(mem, level, left, screen.halted)

LEMMA EventTaken ==
  ASSUME NEW q, NEW halted \in {0, 2}, InTurn(q, halted), q # <<>>
  PROVE  /\ InTurn(Tail(q), halted)
         /\ Head(q) = "HALT" => halted = 0 /\ InTurn(Tail(q), 2)
         /\ Head(q) = "RESUME" => halted = 2 /\ InTurn(Tail(q), 0)
         /\ Head(q) \in {"FOUND", "RESIZE"} => halted = 0
<1>1. q \in Seq(Events) /\ DOMAIN q = 1 .. Len(q) /\ Len(q) \in Nat /\ Len(q) # 0 BY DEF InTurn
<1>2. Tail(q) \in Seq(Events) /\ DOMAIN Tail(q) = 1 .. (Len(q) - 1) BY <1>1
<1>3. \A i \in 1 .. (Len(q) - 1) : Tail(q)[i] = q[i + 1] BY <1>1
<1>4. Head(q) = q[1] /\ 1 \in DOMAIN q BY <1>1
<1>5. \A i \in 1 .. (Len(q) - 1) : i + 1 \in DOMAIN q /\ 1 < i + 1 BY <1>1
<1>6. \A i \in DOMAIN q : IF halted = 0 THEN q[i] # "RESUME" ELSE q[i] \in {"TIMER", "RESUME"}
  BY DEF InTurn
<1>7. \A i, j \in DOMAIN q : i < j => /\ q[i] = "HALT" => q[j] = "TIMER"
                                      /\ q[i] = "RESUME" => q[j] # "RESUME"
  BY DEF InTurn
<1>8. ASSUME NEW i \in DOMAIN Tail(q), NEW j \in DOMAIN Tail(q), i < j
      PROVE  /\ Tail(q)[i] = "HALT" => Tail(q)[j] = "TIMER"
             /\ Tail(q)[i] = "RESUME" => Tail(q)[j] # "RESUME"
  <2>1. i + 1 < j + 1 /\ i + 1 \in DOMAIN q /\ j + 1 \in DOMAIN q BY <1>2, <1>5, <1>8
  <2>2. Tail(q)[i] = q[i + 1] /\ Tail(q)[j] = q[j + 1] BY <1>2, <1>3
  <2> QED BY <1>7, <2>1, <2>2
<1>9. InTurn(Tail(q), halted) BY <1>2, <1>3, <1>5, <1>6, <1>8 DEF InTurn
<1>10. ASSUME Head(q) = "HALT" PROVE halted = 0 /\ InTurn(Tail(q), 2)
  <2>1. halted = 0 BY <1>4, <1>6, <1>10
  <2>2. \A i \in DOMAIN Tail(q) : Tail(q)[i] = "TIMER" BY <1>2, <1>3, <1>4, <1>5, <1>7, <1>10
  <2> QED BY <1>2, <1>8, <2>1, <2>2 DEF InTurn
<1>11. ASSUME Head(q) = "RESUME" PROVE halted = 2 /\ InTurn(Tail(q), 0)
  <2>1. halted = 2 BY <1>4, <1>6, <1>11
  <2>2. \A i \in DOMAIN Tail(q) : Tail(q)[i] # "RESUME" BY <1>2, <1>3, <1>4, <1>5, <1>7, <1>11
  <2> QED BY <1>2, <1>8, <2>1, <2>2 DEF InTurn
<1>12. Head(q) \in {"FOUND", "RESIZE"} => halted = 0 BY <1>4, <1>6
<1> QED BY <1>9, <1>10, <1>11, <1>12

LEMMA EventPosted ==
  ASSUME NEW q, NEW halted \in {0, 2}, InTurn(q, halted), NEW e \in Events,
         e = "HALT" => halted = 0 /\ "HALT" \notin R!ToSet(q),
         e = "RESUME" => halted = 2 /\ "RESUME" \notin R!ToSet(q),
         e \in {"FOUND", "RESIZE"} => halted = 0 /\ "HALT" \notin R!ToSet(q)
  PROVE  InTurn(Append(q, e), halted)
<1> DEFINE p == Append(q, e)
           D == DOMAIN q
           l == Len(q) + 1
<1>1. q \in Seq(Events) /\ D = 1 .. Len(q) /\ Len(q) \in Nat BY DEF InTurn
<1>2. p \in Seq(Events) BY <1>1
<1>3. /\ DOMAIN p = D \cup {l} /\ l \notin D /\ p[l] = e /\ \A i \in D : p[i] = q[i]
  BY <1>1, Entered
<1>4. \A i \in D : i < l /\ ~(l < i) BY <1>1
<1>5. ~(l < l) BY <1>1
<1>6. /\ \A i \in D : IF halted = 0 THEN q[i] # "RESUME" ELSE q[i] \in {"TIMER", "RESUME"}
      /\ \A i, j \in D : i < j => /\ q[i] = "HALT" => q[j] = "TIMER"
                                  /\ q[i] = "RESUME" => q[j] # "RESUME"
  BY DEF InTurn
<1>7. \A i \in D : q[i] \in R!ToSet(q) BY DEF R!ToSet
<1> HIDE DEF p, D, l
<1>8. \A i \in DOMAIN p : IF halted = 0 THEN p[i] # "RESUME" ELSE p[i] \in {"TIMER", "RESUME"}
  BY <1>3, <1>6 DEF Events
<1>9. ASSUME NEW i \in DOMAIN p, NEW j \in DOMAIN p, i < j
      PROVE  /\ p[i] = "HALT" => p[j] = "TIMER"
             /\ p[i] = "RESUME" => p[j] # "RESUME"
  <2>1. i \in D BY <1>3, <1>4, <1>5, <1>9
  <2>2. CASE j \in D BY <1>3, <1>6, <1>9, <2>1, <2>2
  <2>3. CASE j = l
    <3>1. p[i] = q[i] /\ p[j] = e BY <1>3, <2>1, <2>3
    <3>2. q[i] \in R!ToSet(q) BY <1>7, <2>1
    <3> QED BY <1>6, <2>1, <3>1, <3>2 DEF Events
  <2> QED BY <1>3, <2>2, <2>3
<1>10. InTurn(p, halted) BY <1>2, <1>8, <1>9 DEF InTurn
<1> QED BY <1>10 DEF p

LEMMA BitmapsInit == R!Init => BitmapsInv
<1> SUFFICES ASSUME R!Init PROVE BitmapsInv
  OBVIOUS
<1>1. /\ mem = R!Empty /\ level = 0 /\ queue = <<>> /\ strayed = FALSE /\ left = {}
      /\ screen \in ScreenType /\ screen.halted = 0
  <2>1. PICK w \in BOOLEAN : screen = [windows |-> w, up |-> TRUE, heard |-> TRUE, full |-> FALSE,
                                       timer |-> TRUE, halted |-> 0, followed |-> FALSE]
    BY DEF R!Init
  <2> QED BY <2>1 DEF R!Init, ScreenType
<1> DEFINE bm == [b \in Bitmaps |-> R!Closed]
<1>2. bm \in [Bitmaps -> Pixels] BY DEF R!Closed, Pixels
<1>3. mem = [bmp |-> bm, entry |-> <<>>, live |-> {}, atlas |-> <<>>, crowded |-> {}, blank |-> {}, stale |-> FALSE]
  BY <1>1 DEF R!Empty
<1>4. \A b \in Bitmaps : bm[b] = R!Closed OBVIOUS
<1> HIDE DEF bm
<1>5. /\ mem.bmp = bm /\ mem.entry = <<>> /\ mem.live = {} /\ mem.atlas = <<>> /\ mem.crowded = {}
      /\ mem.blank = {} /\ mem.stale = FALSE
  BY <1>3
<1>6. mem \in MemType
  <2>1. <<>> \in Seq(Places) /\ <<>> \in Seq(Atlas) OBVIOUS
  <2>2. IsFiniteSet({}) BY FS_EmptySet
  <2> QED BY <1>2, <1>3, <2>1, <2>2 DEF MemType
<1>7. Entries(mem) = {} /\ Ids(mem) = {} /\ DOMAIN mem.atlas = {} /\ DOMAIN mem.entry = {}
  BY <1>5 DEF Entries, Ids
<1>8. R!Open(mem) = {} BY <1>4, <1>5 DEF R!Open, R!Closed
<1>9. Table(mem) BY <1>4, <1>5, <1>7, <1>8 DEF Table
<1>10. Held(mem) BY <1>4, <1>5 DEF Held, R!Closed
<1>11. Filled(mem) /\ Bound(mem, {}) /\ Pages(mem) BY <1>7 DEF Filled, Bound, Pages
<1>12. Placed(mem, 0, {}) BY <1>7, <1>8 DEF Placed
<1>13. Sound(mem, level, left) BY <1>1, <1>9, <1>10, <1>11, <1>12 DEF Sound, Kept
<1>14. screen \in ScreenType BY <1>1
<1>15. InTurn(queue, screen.halted)
  <2>1. <<>> \in Seq(Events) /\ DOMAIN <<>> = {} OBVIOUS
  <2> QED BY <1>1, <2>1 DEF InTurn
<1>16. screen.halted = 0 BY <1>1
<1> QED BY <1>1, <1>6, <1>13, <1>14, <1>15, <1>16 DEF BitmapsInv, AsItIs

\* Logic runs on a tick; in a halt it may not change what is in memory.
LEMMA LogicStep ==
  ASSUME BitmapsInv, screen.up, queue # <<>>, Head(queue) = "TIMER", queue' = Tail(queue),
         R!CameOrWent, UNCHANGED screen, mem' \in MemType, level' \in Nat, left' \in SUBSET Nat,
         ~mem'.stale => ~mem.stale,
         Sound(mem, level, left) /\ ~mem'.stale => Sound(mem', level', left')
  PROVE  BitmapsInv'
<1>1. /\ screen \in ScreenType /\ InTurn(queue, screen.halted) /\ strayed \in BOOLEAN
      /\ screen.up /\ ~screen.followed /\ ~strayed /\ ~mem.stale => AsItIs(mem, level, left, screen.halted)
  BY DEF BitmapsInv
<1>2. screen.halted \in {0, 2} BY <1>1 DEF ScreenType
<1>3. InTurn(queue', screen'.halted) BY <1>1, <1>2, EventTaken
<1>4. strayed' = (strayed \/ screen.halted # 0) BY DEF R!CameOrWent
<1>5. strayed' \in BOOLEAN BY <1>4
<1>6. ASSUME screen'.up, ~screen'.followed, ~strayed', ~mem'.stale PROVE AsItIs(mem', level', left', screen'.halted)
  <2>1. ~strayed /\ screen.halted = 0 BY <1>4, <1>6
  <2>2. Sound(mem, level, left) BY <1>1, <1>6, <2>1 DEF AsItIs
  <2> QED BY <1>6, <2>1, <2>2 DEF AsItIs
<1> QED BY <1>1, <1>3, <1>5, <1>6 DEF BitmapsInv

\* A bitmap or font comes, and what was there stays as it was.
LEMMA ComesStep ==
  ASSUME BitmapsInv, screen.up, queue # <<>>, Head(queue) = "TIMER", queue' = Tail(queue),
         NEW b \in Bitmaps, R!Comes(b), mem' \in MemType, mem'.atlas = mem.atlas, mem'.stale = mem.stale,
         Kept(mem, left) => Kept(mem', left) /\ R!Open(mem') = R!Open(mem) \cup {b}
  PROVE  BitmapsInv'
<1>1. b \notin Tiles /\ R!CameOrWent /\ UNCHANGED <<level, screen, left>> BY DEF R!Comes
<1>2. Ids(mem') = Ids(mem) /\ (Pages(mem) => Pages(mem')) BY DEF Ids, Pages
<1>3. level' \in Nat /\ left' \in SUBSET Nat BY <1>1 DEF BitmapsInv
<1>4. ASSUME Sound(mem, level, left) PROVE Sound(mem', level', left')
  <2>1. Kept(mem, left) /\ Placed(mem, level, left) /\ Pages(mem) BY <1>4 DEF Sound
  <2>2. Placed(mem', level, left) BY <1>1, <1>2, <2>1, PlacedMore
  <2> QED BY <1>1, <1>2, <2>1, <2>2 DEF Sound
<1> QED BY <1>1, <1>3, <1>4, LogicStep

LEMMA TickStep ==
  ASSUME BitmapsInv, screen.up, ~screen.followed, R!Tick
  PROVE  BitmapsInv'
<1>0. /\ mem \in MemType /\ level \in Nat /\ left \in SUBSET Nat /\ strayed \in BOOLEAN
      /\ screen \in ScreenType /\ InTurn(queue, screen.halted)
      /\ screen.up /\ ~screen.followed /\ ~strayed /\ ~mem.stale => AsItIs(mem, level, left, screen.halted)
      /\ screen.halted \in {0, 2}
  BY DEF BitmapsInv, ScreenType
<1>q. queue # <<>> /\ Head(queue) = "TIMER" /\ queue' = Tail(queue) BY DEF R!Tick
<1>t. InTurn(queue', screen.halted) BY <1>0, <1>q, EventTaken
<1>1. CASE R!Idle BY <1>0, <1>t, <1>1 DEF R!Idle, BitmapsInv, AsItIs
<1>2. CASE R!LoadLevel
  <2>1. PICK v, u, n : /\ v = R!FoldLeft(R!Load, mem, R!SetToSeq(Tiles))
                       /\ u = R!AtlasTileset(v) /\ n = R!AtlasTileset(u)
    OBVIOUS
  <2>2. /\ level = 0 /\ mem' = n /\ level' = R!NewestAtlas(n) /\ left' = left \cup {R!NewestAtlas(u)}
        /\ R!CameOrWent /\ UNCHANGED screen
    BY <1>2, <2>1 DEF R!LoadLevel
  <2>3. /\ n \in MemType /\ n.stale = mem.stale /\ R!NewestAtlas(n) \in Nat
        /\ left \cup {R!NewestAtlas(u)} \in SUBSET Nat
        /\ Sound(mem, 0, left) => Sound(n, R!NewestAtlas(n), left \cup {R!NewestAtlas(u)})
    BY <1>0, <2>1, LevelComes
  <2> QED BY <1>q, <2>2, <2>3, LogicStep
<1>3. CASE R!DestroyLevel
  <2>1. PICK n : n = R!DestroyAtlas(R!FoldLeft(R!Destroy, mem, R!SetToSeq(Tiles)), level)
    OBVIOUS
  <2>2. level # 0 /\ mem' = n /\ level' = 0 /\ R!CameOrWent /\ UNCHANGED <<screen, left>>
    BY <1>3, <2>1 DEF R!DestroyLevel
  <2>3. /\ n \in MemType /\ (~n.stale => ~mem.stale)
        /\ Sound(mem, level, left) /\ ~n.stale => Sound(n, 0, left)
    BY <1>0, <2>1, <2>2, LevelGoes
  <2> QED BY <1>0, <1>q, <2>2, <2>3, LogicStep
<1>4. ASSUME NEW b \in Bitmaps, R!LoadBitmap(b) \/ R!CreateBitmap(b) PROVE BitmapsInv'
  <2>1. PICK n : n = R!Load(mem, b) OBVIOUS
  <2>2. R!Comes(b) /\ mem' = n /\ ~mem.bmp[b].open BY <1>4, <2>1 DEF R!LoadBitmap, R!CreateBitmap, R!Comes
  <2>3. n \in MemType /\ n.atlas = mem.atlas /\ n.stale = mem.stale BY <1>0, <2>1, LoadMakes
  <2>4. Kept(mem, left) => Kept(n, left) /\ R!Open(n) = R!Open(mem) \cup {b} BY <1>0, <2>1, <2>2, LoadKeeps
  <2> QED BY <1>q, <2>2, <2>3, <2>4, ComesStep
<1>5. ASSUME NEW b \in Bitmaps, R!LoadFont(b) PROVE BitmapsInv'
  <2>1. PICK n, o : /\ n = R!Load(mem, b)
                    /\ o = [mem EXCEPT !.bmp[b].open = TRUE, !.blank = @ \cup {b}]
    OBVIOUS
  <2>2. R!Comes(b) /\ mem' \in {n, o} /\ ~mem.bmp[b].open BY <1>5, <2>1 DEF R!LoadFont, R!Comes
  <2>3. n \in MemType /\ n.atlas = mem.atlas /\ n.stale = mem.stale BY <1>0, <2>1, LoadMakes
  <2>4. Kept(mem, left) => Kept(n, left) /\ R!Open(n) = R!Open(mem) \cup {b} BY <1>0, <2>1, <2>2, LoadKeeps
  <2>5. /\ o \in MemType /\ o.atlas = mem.atlas /\ o.stale = mem.stale
        /\ Kept(mem, left) => Kept(o, left) /\ R!Open(o) = R!Open(mem) \cup {b}
    BY <1>0, <2>1, <2>2, BlankKeeps
  <2>6. CASE mem' = n BY <1>q, <2>2, <2>3, <2>4, <2>6, ComesStep
  <2>7. CASE mem' = o BY <1>q, <2>2, <2>5, <2>7, ComesStep
  <2> QED BY <2>2, <2>6, <2>7
<1>6. ASSUME NEW b \in Bitmaps, R!DestroyBitmap(b) PROVE BitmapsInv'
  <2>1. PICK n : n = R!Destroy(mem, b) OBVIOUS
  <2>2. /\ b \notin Tiles /\ mem.bmp[b].open /\ mem' = n /\ R!CameOrWent /\ UNCHANGED <<level, screen, left>>
    BY <1>6, <2>1 DEF R!DestroyBitmap
  <2>3. n \in MemType /\ n.stale = (mem.stale \/ R!Shared(mem, b)) BY <1>0, <2>1, DestroyTyped
  <2>4. ~n.stale => ~mem.stale /\ ~R!Shared(mem, b)
    <3>1. R!Shared(mem, b) \in BOOLEAN /\ mem.stale \in BOOLEAN BY <1>0 DEF R!Shared, MemType
    <3> QED BY <2>3, <3>1
  <2>5. ASSUME Sound(mem, level, left), ~n.stale PROVE Sound(n, level, left)
    <3>1. Kept(mem, left) /\ Placed(mem, level, left) /\ Pages(mem) BY <2>5 DEF Sound
    <3>2. b \in R!Open(mem) BY <2>2 DEF R!Open
    <3>3. /\ Kept(n, Behind(mem, b, left)) /\ R!Open(n) = R!Open(mem) \ {b}
          /\ Ids(n) = Ids(mem) /\ (Pages(mem) => Pages(n))
      BY <1>0, <2>1, <2>4, <2>5, <3>1, <3>2, DestroyKeeps
    <3>4. Behind(mem, b, left) = left BY <2>2 DEF Behind
    <3>5. Placed(n, level, left) BY <2>2, <3>1, <3>3, PlacedMore
    <3> QED BY <3>1, <3>3, <3>4, <3>5 DEF Sound
  <2> QED BY <1>0, <1>q, <2>2, <2>3, <2>4, <2>5, LogicStep
<1>7. ASSUME NEW b \in Bitmaps, NEW from \in Bitmaps, R!CloneBitmap(b, from) PROVE BitmapsInv'
  <2>1. PICK n, o : n = R!CloneResource(mem, b, from) /\ o = R!CloneAnimation(mem, b, from)
    OBVIOUS
  <2>2. R!Comes(b) /\ mem.bmp[from].open /\ mem' \in {n, o} /\ ~mem.bmp[b].open
    BY <1>7, <2>1 DEF R!CloneBitmap, R!Comes
  <2>3. from \in R!Open(mem) BY <2>2 DEF R!Open
  <2>4. /\ o \in MemType /\ o.atlas = mem.atlas /\ o.stale = mem.stale
        /\ Kept(mem, left) => Kept(o, left) /\ R!Open(o) = R!Open(mem) \cup {b}
    BY <1>0, <2>1, <2>2, <2>3, CloneKeeps
  <2>5. CASE mem' = o BY <1>q, <2>2, <2>4, <2>5, ComesStep
  <2>6. CASE mem' # o
    <3>1. mem' = n /\ n = mem BY <2>1, <2>2, <2>6 DEF R!CloneResource, R!CloneAnimation
    <3>2. R!CameOrWent /\ UNCHANGED <<level, screen, left>> BY <2>2 DEF R!Comes
    <3> QED BY <1>0, <1>q, <3>1, <3>2, LogicStep
  <2> QED BY <2>5, <2>6
<1>8. ASSUME NEW done \in BOOLEAN, NEW made \in BOOLEAN, R!DisplayToggle(done, made) \/ R!Resolution(done, made)
      PROVE  BitmapsInv'
  <2>1. PICK full \in BOOLEAN : R!NewMode(full, done, made) /\ screen.halted = 0
    BY <1>0, <1>8 DEF R!DisplayToggle, R!Resolution, ScreenType
  <2>2. PICK n : n = R!SetWindowSize(done, made, mem) OBVIOUS
  <2>3. PICK touched : touched = (screen.windows \/ ~done) OBVIOUS
  <2>4. /\ screen' = [screen EXCEPT !.full = full, !.heard = @ /\ done, !.up = done \/ made,
                                    !.followed = touched /\ R!Broken]
        /\ mem' = IF R!Broken THEN mem ELSE n
        /\ UNCHANGED <<level, strayed, left>>
    BY <2>1, <2>2, <2>3 DEF R!NewMode
  <2>5. /\ n \in MemType /\ n.stale = mem.stale
        /\ (done \/ made) /\ Kept(mem, left) /\ Pages(mem) => Kept(n, left) /\ Alike(mem, n) /\ Pages(n)
    BY <1>0, <2>2, WindowKeeps
  <2>6. screen' \in ScreenType /\ screen'.halted = 0 /\ (screen'.up => done \/ made)
    <3>1. R!Broken \in BOOLEAN BY DEF R!Broken, R!Dangling
    <3>2. screen.heard \in BOOLEAN BY <1>0 DEF ScreenType
    <3>3. PICK h, u, f : h = (screen.heard /\ done) /\ u = (done \/ made) /\ f = (touched /\ R!Broken)
      OBVIOUS
    <3>4. h \in BOOLEAN /\ f \in BOOLEAN /\ u \in BOOLEAN /\ (u => done \/ made) BY <2>3, <3>1, <3>2, <3>3
    <3>5. screen' = [screen EXCEPT !.full = full, !.heard = h, !.up = u, !.followed = f] BY <2>4, <3>3
    <3>6. screen \in ScreenType /\ screen.halted = 0 BY <1>0, <2>1
    <3>7. screen' \in ScreenType BY ONLY <3>4, <3>5, <3>6, full \in BOOLEAN, ZenonT(40) DEF ScreenType
    <3>8. screen'.halted = 0 /\ screen'.up = u BY ONLY <3>5, <3>6 DEF ScreenType
    <3> QED BY <3>4, <3>7, <3>8
  <2>7. mem' \in MemType /\ mem'.stale = mem.stale BY <1>0, <2>4, <2>5
  <2>8. ASSUME screen'.up, ~screen'.followed, ~strayed', ~mem'.stale PROVE Sound(mem', level', left')
    <3>1. Sound(mem, level, left) BY <1>0, <2>1, <2>4, <2>7, <2>8 DEF AsItIs
    <3>2. Kept(mem, left) /\ Placed(mem, level, left) /\ Pages(mem) BY <3>1 DEF Sound
    <3>3. Sound(n, level, left)
      <4>1. Kept(n, left) /\ Alike(mem, n) /\ Pages(n) BY <2>5, <2>6, <2>8, <3>2
      <4>2. Placed(n, level, left) BY <3>2, <4>1, PlacedAlike
      <4> QED BY <4>1, <4>2 DEF Sound
    <3> QED BY <2>4, <3>1, <3>3
  <2>9. InTurn(queue', screen'.halted) BY <1>t, <2>1, <2>6
  <2> QED BY <1>0, <2>4, <2>6, <2>7, <2>8, <2>9 DEF BitmapsInv, AsItIs
<1> QED BY <1>1, <1>2, <1>3, <1>4, <1>5, <1>6, <1>7, <1>8 DEF R!Tick

LEMMA BitmapsStep == BitmapsInv /\ R!Next => BitmapsInv'
<1> SUFFICES ASSUME BitmapsInv, R!Next PROVE BitmapsInv'
  OBVIOUS
<1>0. /\ mem \in MemType /\ level \in Nat /\ left \in SUBSET Nat /\ strayed \in BOOLEAN
      /\ screen \in ScreenType /\ InTurn(queue, screen.halted) /\ screen.up /\ ~screen.followed
      /\ ~strayed /\ ~mem.stale => AsItIs(mem, level, left, screen.halted)
      /\ screen.halted \in {0, 2}
  BY DEF BitmapsInv, ScreenType, R!Next
<1>b. R!Broken \in BOOLEAN BY DEF R!Broken, R!Dangling
<1>1. CASE R!Tick BY <1>0, <1>1, TickStep
<1>2. CASE R!Halt
  <2>1. PICK n : n = R!GiveUp(mem) OBVIOUS
  <2>2. /\ queue # <<>> /\ Head(queue) = "HALT" /\ queue' = Tail(queue) /\ UNCHANGED <<level, strayed, left>>
        /\ mem' = n /\ screen' = [screen EXCEPT !.timer = FALSE, !.halted = 2]
    BY <1>2, <2>1 DEF R!Halt, R!Handle
  <2>3. screen.halted = 0 /\ InTurn(queue', 2) BY <1>0, <2>2, EventTaken
  <2>4. /\ n \in MemType /\ n.stale = mem.stale
        /\ Kept(mem, left) \/ Void(mem, left) => Void(n, left) /\ Alike(mem, n)
    BY <1>0, <2>1, GiveUpKeeps
  <2>5. screen' \in ScreenType /\ screen'.halted = 2 BY <1>0, <2>2 DEF ScreenType
  <2>6. ASSUME ~strayed', ~mem'.stale PROVE Hollow(mem', level', left')
    <3>1. Kept(mem, left) /\ Placed(mem, level, left)
      BY <1>0, <2>2, <2>3, <2>4, <2>6 DEF AsItIs, Sound
    <3>2. Placed(n, level, left) BY <2>4, <3>1, PlacedAlike
    <3> QED BY <2>2, <2>4, <3>1, <3>2 DEF Hollow
  <2> QED BY <1>0, <2>2, <2>3, <2>4, <2>5, <2>6 DEF BitmapsInv, AsItIs
<1>3. CASE R!Resume
  <2>1. PICK n : n = R!Restore(mem) OBVIOUS
  <2>2. /\ queue # <<>> /\ Head(queue) = "RESUME" /\ queue' = Tail(queue) /\ UNCHANGED <<level, strayed, left>>
        /\ mem' = (IF R!Broken THEN mem ELSE n)
        /\ screen' = [screen EXCEPT !.timer = TRUE, !.halted = 0, !.followed = R!Broken]
    BY <1>3, <2>1 DEF R!Resume, R!Handle
  <2>3. screen.halted = 2 /\ InTurn(queue', 0) BY <1>0, <2>2, EventTaken
  <2>4. /\ n \in MemType /\ n.stale = mem.stale
        /\ Void(mem, left) => Kept(n, left) /\ Alike(mem, n) /\ Pages(n)
    BY <1>0, <2>1, RestoreKeeps
  <2>5. screen' \in ScreenType /\ screen'.halted = 0 /\ (~screen'.followed => ~R!Broken)
    BY <1>0, <1>b, <2>2 DEF ScreenType
  <2>6. ASSUME screen'.up, ~screen'.followed, ~strayed', ~mem'.stale PROVE Sound(mem', level', left')
    <3>1. Void(mem, left) /\ Placed(mem, level, left)
      BY <1>0, <2>2, <2>3, <2>4, <2>6 DEF AsItIs, Hollow
    <3>2. Placed(n, level, left) BY <2>4, <3>1, PlacedAlike
    <3> QED BY <2>2, <2>4, <2>5, <2>6, <3>1, <3>2 DEF Sound
  <2> QED BY <1>0, <2>2, <2>3, <2>4, <2>5, <2>6 DEF BitmapsInv, AsItIs
<1>4. CASE R!Found \/ R!Resize
  <2>1. PICK n : n = R!Renew(mem) OBVIOUS
  <2>2. /\ queue # <<>> /\ Head(queue) \in {"FOUND", "RESIZE"} /\ queue' = Tail(queue)
        /\ UNCHANGED <<level, strayed, left>>
    BY <1>4 DEF R!Found, R!Resize, R!Handle
  <2>3. screen.halted = 0 /\ InTurn(queue', 0) BY <1>0, <2>2, EventTaken
  <2>4. /\ n \in MemType /\ n.stale = mem.stale
        /\ Kept(mem, left) => Kept(n, left) /\ Alike(mem, n) /\ Pages(n)
    BY <1>0, <2>1, RenewKeeps
  <2>5. mem' \in {mem, n} BY <1>4, <2>1 DEF R!Found, R!Resize
  <2>6. screen' \in ScreenType /\ screen'.halted = 0
    <3>1. screen.timer \in BOOLEAN BY <1>0 DEF ScreenType
    <3>2. CASE R!Found
      <4>1. screen' = [screen EXCEPT !.timer = TRUE, !.followed = R!Broken] BY <3>2 DEF R!Found
      <4> QED BY <1>0, <1>b, <2>3, <4>1 DEF ScreenType
    <3>3. CASE R!Resize
      <4>1. PICK s, t \in BOOLEAN : screen' = [screen EXCEPT !.timer = s, !.followed = t]
        <5>1. screen' = [screen EXCEPT !.timer = (screen.timer \/ screen.windows),
                                         !.followed = (screen.windows /\ R!Broken)]
          BY <1>0, <3>3 DEF R!Resize, ScreenType
        <5>2. (screen.timer \/ screen.windows) \in BOOLEAN BY Zenon
        <5>3. (screen.windows /\ R!Broken) \in BOOLEAN BY Zenon
        <5> QED BY <5>1, <5>2, <5>3
      <4> QED BY <1>0, <2>3, <4>1 DEF ScreenType
    <3> QED BY <1>4, <3>2, <3>3
  <2>7. ASSUME ~strayed', ~mem'.stale PROVE Sound(mem', level', left')
    <3>1. Sound(mem, level, left) BY <1>0, <2>2, <2>3, <2>4, <2>5, <2>7 DEF AsItIs
    <3>2. Kept(mem, left) /\ Placed(mem, level, left) BY <3>1 DEF Sound
    <3>3. Sound(n, level, left)
      <4>1. Placed(n, level, left) BY <2>4, <3>2, PlacedAlike
      <4> QED BY <2>4, <3>2, <4>1 DEF Sound
    <3> QED BY <2>2, <2>5, <3>1, <3>3
  <2> QED BY <1>0, <2>2, <2>3, <2>4, <2>5, <2>6, <2>7 DEF BitmapsInv, AsItIs
<1>5. ASSUME NEW e \in Events, R!Post(e) PROVE BitmapsInv'
  <2>1. queue' = Append(queue, e) /\ UNCHANGED <<mem, level, screen, strayed, left>> BY <1>5 DEF R!Post
  <2>2. /\ e = "HALT" => screen.halted = 0 /\ "HALT" \notin R!ToSet(queue)
        /\ e = "RESUME" => screen.halted = 2 /\ "RESUME" \notin R!ToSet(queue)
        /\ e \in {"FOUND", "RESIZE"} => screen.halted = 0 /\ "HALT" \notin R!ToSet(queue)
    BY <1>5 DEF R!Post, R!Pending
  <2>3. InTurn(queue', screen.halted) BY <1>0, <2>1, <2>2, EventPosted
  <2> QED BY <1>0, <2>1, <2>3 DEF BitmapsInv, AsItIs
<1> QED BY <1>1, <1>2, <1>3, <1>4, <1>5 DEF R!Next, Events

-----------------------------------------------------------------------------
(* What is kept is what is promised.                                        *)
LEMMA OwnObjects ==
  ASSUME NEW m \in MemType, NEW lf, Kept(m, lf), Pages(m)
  PROVE  LET own == R!Open(m) \ (m.crowded \cup m.blank) IN
           /\ \A b \in own :
                /\ m.bmp[b].obj \in m.live
                /\ \A c \in own \ {b} : m.bmp[c].obj # m.bmp[b].obj
                /\ m.bmp[b].on # 0 => \E k \in DOMAIN m.atlas : m.atlas[k].id = m.bmp[b].on /\ m.atlas[k].page
           /\ m.crowded = {} => m.live = {m.bmp[b].obj : b \in R!Open(m) \ m.blank}
           /\ R!Freed \notin R!ToSet(m.entry)
           /\ \A k \in DOMAIN m.atlas : R!Freed \in R!ToSet(m.atlas[k].member) => m.atlas[k].id \in lf
<1>1. Table(m) /\ Held(m) /\ Filled(m) /\ Bound(m, lf) BY DEF Kept
<1>2. R!Open(m) \ (m.crowded \cup m.blank) = Entries(m) /\ Entries(m) \subseteq Bitmaps
  BY <1>1 DEF Table, R!Open
<1>3. ASSUME NEW b \in Entries(m)
      PROVE  /\ m.bmp[b].obj \in m.live
             /\ \A c \in Entries(m) \ {b} : m.bmp[c].obj # m.bmp[b].obj
             /\ m.bmp[b].on # 0 => \E k \in DOMAIN m.atlas : m.atlas[k].id = m.bmp[b].on /\ m.atlas[k].page
  <2>1. m.bmp[b].obj # 0 /\ \A c \in Entries(m) \ {b} : m.bmp[c].obj # m.bmp[b].obj
    BY <1>1, <1>2 DEF Filled
  <2>2. m.bmp[b].obj \in m.live BY <1>1, <1>2, <2>1 DEF Held
  <2>3. m.bmp[b].on # 0 => \E k \in DOMAIN m.atlas : m.atlas[k].id = m.bmp[b].on /\ m.atlas[k].page
    BY <1>1 DEF Bound, Ids, Pages
  <2> QED BY <2>1, <2>2, <2>3
<1>4. ASSUME m.crowded = {} PROVE m.live = {m.bmp[b].obj : b \in R!Open(m) \ m.blank}
  <2>1. R!Open(m) \ m.blank = Entries(m) BY <1>2, <1>4
  <2>2. ASSUME NEW o \in m.live PROVE \E b \in Entries(m) : m.bmp[b].obj = o
    <3>1. PICK b \in Bitmaps : m.bmp[b].obj = o BY <1>1 DEF Held
    <3>2. m.bmp[b].obj # 0 BY <1>1, <3>1 DEF Held
    <3>3. b \in R!Open(m) BY <1>1, <3>2 DEF Table, R!Closed
    <3>4. b \notin m.blank BY <1>1, <3>2 DEF Table
    <3> QED BY <2>1, <3>1, <3>3, <3>4
  <2> DEFINE E == Entries(m)
  <2>3. \A b \in E : m.bmp[b].obj \in m.live BY <1>3
  <2>4. \A o \in m.live : \E b \in E : m.bmp[b].obj = o BY <2>2
  <2> HIDE DEF E
  <2>5. m.live = {m.bmp[b].obj : b \in E} BY ONLY <2>3, <2>4
  <2> QED BY <2>1, <2>5 DEF E
<1>5. R!Freed \notin R!ToSet(m.entry) BY <1>2, Places_ DEF Entries, R!ToSet
<1>6. \A k \in DOMAIN m.atlas : R!Freed \in R!ToSet(m.atlas[k].member) => m.atlas[k].id \in lf
  BY <1>1 DEF Bound, Members, R!ToSet
<1> QED BY <1>2, <1>3, <1>4, <1>5, <1>6

(* Bitmaps that are loaded, copied, put on an atlas and destroyed, and a    *)
(* display that is taken away and given back, found anew or resized, in     *)
(* whatever order: what is open has an object of its own and, if it is on   *)
(* an atlas, a page; nothing stays in memory that nobody refers to; and     *)
(* neither the table nor an atlas still shown refers to what was freed.     *)
(* That is until the display is lost or changed after a level has been      *)
(* unloaded, which follows the atlas the level left behind to freed tiles;  *)
(* until logic in a halt loads or destroys something; until an object goes  *)
(* that a copy beside the table shares; and for bitmaps in the table only.  *)
THEOREM BitmapsAreHeld == MCSpec => []AllLive
<1>1. MCInit => BitmapsInv BY BitmapsInit DEF MCInit
<1>2. BitmapsInv /\ [MCNext]_allVars => BitmapsInv'
  <2> SUFFICES ASSUME BitmapsInv, [MCNext]_allVars PROVE BitmapsInv'
    OBVIOUS
  <2>1. R!Next \/ UNCHANGED bitmapVars
    BY DEF MCNext, Only, allVars
  <2>2. UNCHANGED bitmapVars => BitmapsInv'
    BY DEF bitmapVars, BitmapsInv, AsItIs
  <2> QED BY <2>1, <2>2, BitmapsStep
<1>3. BitmapsInv => AllLive
  <2> SUFFICES ASSUME BitmapsInv, screen.up, ~screen.followed, screen.halted = 0, ~strayed, ~mem.stale PROVE AllLive
    BY DEF AllLive, R!AllLive
  <2>1. mem \in MemType /\ Kept(mem, left) /\ Pages(mem) BY DEF BitmapsInv, AsItIs, Sound
  <2> QED BY <2>1, OwnObjects DEF AllLive, R!AllLive
<1> QED BY <1>1, <1>2, <1>3, PTL DEF MCSpec
=============================================================================
