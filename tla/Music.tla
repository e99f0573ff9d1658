------------------------------- MODULE Music -------------------------------
(***************************************************************************)
(* The music: the program asks for a track or for silence, and a thread    *)
(* loads the track and lets it sound.  The thread works under a mutex, but *)
(* the program changes the stream that is played, and the one that is to   *)
(* be stopped, before it takes the mutex.                                  *)
(***************************************************************************)
EXTENDS Naturals

CONSTANTS
  Tracks,    \* what can be asked for
  Missing,   \* those that cannot be loaded
  MaxPlays   \* bound: how often music is asked for

VARIABLES
  stream,    \* t3f_stream, a number for each stream that was loaded; 0 is NULL
  stopping,  \* _t3f_stopping_stream
  thread,    \* where the thread is, and the track it was given
  program,   \* where the program is in a call, music_playing, halted, plays
  sound,     \* the streams attached to the mixer, their tracks, and those paused
  wish       \* what was asked for last, and whether it came while a track was loaded

vars == <<stream, stopping, thread, program, sound, wish>>

Silence == "silence"

Init ==
  /\ stream = 0 /\ stopping = 0
  /\ thread = [at |-> "done", track |-> Silence, locked |-> FALSE]
  /\ program = [at |-> "idle", playing |-> FALSE, halted |-> FALSE, plays |-> 0]
  /\ sound = [on |-> {}, track |-> [n \in 1 .. MaxPlays |-> Silence], paused |-> {}]
  /\ wish = [track |-> Silence, early |-> FALSE]

Loading == thread.at # "done"

\* The calls of the program do not overlap; they wait for the mutex.
Free == program.at = "idle" /\ ~program.halted

-----------------------------------------------------------------------------
(* The program *)

\* Mutation: the stream that plays is not kept to be stopped.
Forgotten == stopping

\* What the thread has to stop before it plays.
Outgoing == IF stream # 0 THEN stream ELSE stopping

\* pp2_play_music; al_destroy_thread waits for the thread of the last track.
Play(track) ==
  /\ Free /\ ~Loading /\ program.plays < MaxPlays
  /\ stopping' = Outgoing /\ stream' = 0
  /\ thread' = [at |-> "begin", track |-> track, locked |-> FALSE]
  /\ program' = [program EXCEPT !.playing = TRUE, !.plays = @ + 1]
  /\ wish' = [wish EXCEPT !.track = track]
  /\ UNCHANGED sound

\* pp2_stop_music, up to the mutex.
Stop ==
  /\ Free /\ program.playing
  /\ stopping' = stream /\ stream' = 0
  /\ program' = [program EXCEPT !.at = "stopping"]
  /\ wish' = [track |-> Silence, early |-> wish.early \/ Loading]
  /\ UNCHANGED <<thread, sound>>

Without(n) == [sound EXCEPT !.on = @ \ {n}, !.paused = @ \ {n}]

\* _t3f_actually_stop_music, with the mutex.
FinishStop ==
  /\ program.at = "stopping" /\ ~thread.locked
  /\ sound' = Without(stopping) /\ stopping' = 0
  /\ program' = [program EXCEPT !.at = "idle", !.playing = FALSE]
  /\ UNCHANGED <<stream, thread, wish>>

\* The display is taken away, and given back: whoever has no stream is passed by.
Halt ==
  /\ Free
  /\ stream # 0 => ~thread.locked
  /\ sound' = IF stream # 0 THEN [sound EXCEPT !.paused = @ \union {stream}] ELSE sound
  /\ program' = [program EXCEPT !.halted = TRUE]
  /\ wish' = [wish EXCEPT !.early = @ \/ Loading]
  /\ UNCHANGED <<stream, stopping, thread>>

Resume ==
  /\ program.halted
  /\ stream # 0 => ~thread.locked
  /\ sound' = [sound EXCEPT !.paused = @ \ {stream}]
  /\ program' = [program EXCEPT !.halted = FALSE]
  /\ UNCHANGED <<stream, stopping, thread, wish>>

-----------------------------------------------------------------------------
(* t3f_play_music_thread *)

Begin ==
  /\ thread.at = "begin"
  /\ thread' = [thread EXCEPT !.at = "load", !.locked = TRUE]
  /\ sound' = Without(stopping) /\ stopping' = 0
  /\ UNCHANGED <<stream, program, wish>>

LoadTrack ==
  /\ thread.at = "load"
  /\ IF thread.track \in Missing
       THEN thread' = [thread EXCEPT !.at = "done", !.locked = FALSE] /\ stream' = 0 /\ UNCHANGED sound
       ELSE /\ stream' = program.plays
            /\ thread' = [thread EXCEPT !.at = "attach"]
            /\ sound' = [sound EXCEPT !.track[program.plays] = thread.track]
  /\ UNCHANGED <<stopping, program, wish>>

\* The thread reads t3f_stream again.  If a stop has just taken it away it hands
\* NULL to the mixer: at best nothing comes of it.
Attach ==
  /\ thread.at = "attach"
  /\ thread' = [thread EXCEPT !.at = "done", !.locked = FALSE]
  /\ sound' = IF stream # 0 THEN [sound EXCEPT !.on = @ \union {stream}] ELSE sound
  /\ UNCHANGED <<stream, stopping, program, wish>>

Next ==
  \/ \E track \in Tracks : Play(track)
  \/ Stop \/ FinishStop \/ Halt \/ Resume
  \/ Begin \/ LoadTrack \/ Attach

Spec == Init /\ [][Next]_vars

-----------------------------------------------------------------------------

\* Once a track is loaded only the music asked for last is heard, and none while
\* the display is away: unless silence, or the pause, came while a track was
\* being loaded.
HeardAsAsked ==
  ~Loading /\ program.at = "idle" /\ ~wish.early =>
    LET heard == {sound.track[n] : n \in sound.on \ sound.paused}
    IN heard = IF program.halted \/ wish.track \in Missing \union {Silence} THEN {} ELSE {wish.track}
=============================================================================
