---------------------------- MODULE InputBuffer ----------------------------
(***************************************************************************)
(* The ring of input frames of joynet/input_buffer.c.  Positions count     *)
(* frames from 1 where the code counts bytes from 0 (frame_size of them a  *)
(* frame).  The buffer does not refuse a frame when it is full: writers    *)
(* check frames only afterwards (INPUT in joynet/game_message.c), readers  *)
(* before (joynet_game_logic, joynet_update_game_server).                  *)
(***************************************************************************)
EXTENDS Integers, Sequences

CONSTANTS
  Frames,      \* contents of a frame
  Blank,       \* the frame of zeroes
  Max,         \* max_frames
  MaxPending   \* bound: frames that may wait in the buffer

ASSUME BufferAssumption == /\ Max \in Nat \ {0}
                           /\ Blank \in Frames
                           /\ MaxPending \in Nat

Cells == 1 .. Max

VARIABLES
  data, read_pos, write_pos, previous_write_pos,
  frames,          \* frames written and not read
  filled_frames,   \* whether the code's counter of frames written is not 0
  out,             \* the frame last copied to a reader
  pending          \* auxiliary, read by no action: the frames written and not read

vars == <<data, read_pos, write_pos, previous_write_pos, frames, filled_frames,
          out, pending>>

\* joynet_create_input_buffer; the data is not initialized.
Init == /\ data \in [Cells -> Frames]
        /\ read_pos = 1 /\ write_pos = 1 /\ previous_write_pos = 1
        /\ frames = 0 /\ filled_frames = FALSE
        /\ out \in Frames
        /\ pending = <<>>

After(pos) == IF pos >= Max THEN 1 ELSE pos + 1

PutFrame(f) ==
  /\ frames < MaxPending
  /\ previous_write_pos' = write_pos
  /\ data' = [data EXCEPT ![write_pos] = f]
  /\ write_pos' = After(write_pos)
  /\ filled_frames' = TRUE
  /\ frames' = frames + 1
  /\ pending' = Append(pending, f)
  /\ UNCHANGED <<read_pos, out>>

\* joynet_write_input_buffer_frame
Write == \E f \in Frames : PutFrame(f)

\* joynet_duplicate_input_buffer_frame
Duplicate == PutFrame(IF filled_frames THEN data[previous_write_pos] ELSE Blank)

\* joynet_read_input_buffer_frame
Read == /\ frames > 0
        /\ out' = data[read_pos]
        /\ read_pos' = After(read_pos)
        /\ frames' = frames - 1
        /\ pending' = Tail(pending)
        /\ UNCHANGED <<data, write_pos, previous_write_pos, filled_frames>>

ResetFramesOnly ==
  /\ frames' = 0 /\ filled_frames' = FALSE /\ pending' = <<>>
  /\ read_pos' = 1
  /\ UNCHANGED <<data, write_pos, previous_write_pos, out>>

\* joynet_reset_input_buffer
Reset == /\ frames' = 0 /\ filled_frames' = FALSE /\ pending' = <<>>
         /\ read_pos' = 1 /\ write_pos' = 1 /\ previous_write_pos' = 1
         /\ UNCHANGED <<data, out>>

Next == Write \/ Duplicate \/ Read \/ Reset

Spec == Init /\ [][Next]_vars

-----------------------------------------------------------------------------
(* The types of the buffer: positions stay inside the data.                 *)
TypeOK == /\ data \in [Cells -> Frames]
          /\ read_pos \in Cells /\ write_pos \in Cells
          /\ previous_write_pos \in Cells
          /\ frames \in Nat /\ filled_frames \in BOOLEAN
          /\ out \in Frames
          /\ pending \in Seq(Frames)

\* The cell of the frame written j frames ago.
Back(j) == IF write_pos > j THEN write_pos - j ELSE write_pos - j + Max

(* The Max newest of the frames that wait are in the cells before           *)
(* write_pos, however often the ring wrapped, overflowed and drained.       *)
NewestKept ==
  /\ frames = Len(pending)
  /\ \A j \in 1 .. Max : j <= frames => data[Back(j)] = pending[frames + 1 - j]

(* The reader is frames cells behind the writer, modulo the size.           *)
InStep == \E laps \in 0 .. MaxPending : frames = write_pos - read_pos + laps * Max

(* What is put into the buffer comes out of it as FrameQueue says: in       *)
(* order and once, unless more than Max frames wait.                        *)
Queue == INSTANCE FrameQueue
           WITH last <- IF filled_frames THEN data[previous_write_pos] ELSE Blank
QueueSpec == Queue!Spec
=============================================================================
