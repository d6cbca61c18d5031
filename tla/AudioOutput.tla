----------------------------- MODULE AudioOutput -----------------------------
(***************************************************************************)
(* The audio path of gg-backend (crates/gg-backend/src/lib.rs, mod mixer   *)
(* and the audio functions of the desktop imp): the game thread registers  *)
(* sounds, resamples them and sends commands over a bounded ring; the      *)
(* device callback drains the ring and mixes, with no lock between the     *)
(* two.  Every pop is a step of its own, so the game thread runs between   *)
(* any two of them.  The ring of raw samples is not modelled.              *)
(***************************************************************************)
EXTENDS Mixer

CONSTANTS CMD_CAP,            \* the command ring's capacity
          Shapes,             \* sounds a program registers: [len, channels, rate]
          Formats,            \* device formats: [channels, rate]
          Volumes,            \* volumes a program plays at
          Tunings,            \* <<vol_q8, pan_q8>> it tunes to
          MadeUpIds,          \* ids it stops or tunes that play never gave it
          MaxSounds, MaxPlays, \* bounds on what the program does
          MaxFill             \* and on the slots one callback fills

ASSUME AudioAssumption == /\ {CMD_CAP, MaxSounds, MaxPlays} \subseteq Nat
                          /\ MaxFill \in Nat \ {0} /\ MadeUpIds \subseteq VoiceIds
                          /\ MaxPlays < GenMod * MAX_VOICES
                          /\ Shapes \subseteq [len : Nat, channels : Nat, rate : Nat]
                          /\ Formats \subseteq [channels : Nat, rate : Nat]
                          /\ Volumes \subseteq Nat /\ Tunings \subseteq Nat \X Nat

VARIABLES audio_started, stream,   \* the device was asked for, and opened
          device,                  \* its format
          sounds,                  \* SoundRegistry.sounds
          arcs,                    \* buffers allocated so far
          generations, next_slot,  \* SoundRegistry's voice allocator
          cmds,                    \* the command ring
          voices,                  \* Mixer.voices, the callback's own
          cb, left,                \* what the callback does, and its slots to fill
          plays,                   \* ghost: the id every play call returned
          board                    \* ghost: what the accepted commands ask of each play

gameVars == <<audio_started, stream, device, sounds, arcs, generations, next_slot>>
ghostVars == <<plays, board>>
callbackVars == <<voices, cb, left>>
vars == <<gameVars, cmds, callbackVars, ghostVars>>

NoFormat == [channels |-> 0, rate |-> 0]
PlayNos == 1 .. MaxPlays
Unsent == [sent |-> FALSE, vol_q8 |-> 0, pan_q8 |-> Center, stopped |-> FALSE]

Init == /\ audio_started = FALSE /\ stream = FALSE /\ device = NoFormat
        /\ sounds = <<>> /\ arcs = 0
        /\ generations = [s \in Slots |-> 0] /\ next_slot = 0
        /\ cmds = <<>>
        /\ voices = [s \in Slots |-> idle]
        /\ cb = "drain" /\ left = 0
        /\ plays = <<>> /\ board = [n \in PlayNos |-> Unsent]

-------------------------------------------------------------------------------
(* The game thread. *)

(* ensure_stream: the device is tried once; d is what opening it gave. *)
Outcomes == IF audio_started THEN {device} ELSE Formats \cup {NoFormat}
ensure_stream(d) == /\ audio_started' = TRUE
                    /\ device' = d
                    /\ stream' = (d # NoFormat)

audio_spec == /\ \E d \in Outcomes : ensure_stream(d)
              /\ UNCHANGED <<sounds, arcs, generations, next_slot, cmds, callbackVars, ghostVars>>

sound == /\ Len(sounds) < MaxSounds
         /\ \E s \in Shapes :
              sounds' = Append(sounds, [len |-> s.len,
                                        channels |-> AtLeastOne(s.channels),
                                        rate |-> IF s.rate = 0 THEN 44100 ELSE s.rate,
                                        resampled |-> NoBuffer])
         /\ UNCHANGED <<audio_started, stream, device, arcs, generations, next_slot,
                        cmds, callbackVars, ghostVars>>

(* prepare that resamples on every play and keeps the newest copy. *)
prepare_mutant(i, d) == [id |-> arcs + 1, len |-> Len(resample(sounds[i], d))]

(* The device-format buffer of sound i, made on its first play. *)
prepare(i, d) == IF sounds[i].resampled = NoBuffer
                 THEN [id |-> arcs + 1, len |-> Len(resample(sounds[i], d))]
                 ELSE sounds[i].resampled

(* next_slot that skips the last slot of the pool. *)
alloc_voice_mutant == [slot |-> 0,
                       generation |-> (generations[0] + 1) % GenMod]

(* alloc_voice's answer; play makes its two assignments. *)
alloc_voice == [slot |-> next_slot,
                generation |-> (generations[next_slot] + 1) % GenMod]

(* send_cmd: a full ring drops the command. *)
Accepts == Len(cmds) < CMD_CAP
send_cmd(cmd) == cmds' = IF Accepts THEN Append(cmds, cmd) ELSE cmds

(* play when there is no device, or no such sound: 0, and nothing sent. *)
PlayNothing == /\ \E d \in Outcomes : ensure_stream(d)
               /\ ~stream' \/ sounds = <<>>
               /\ UNCHANGED <<sounds, arcs, generations, next_slot, cmds, callbackVars, ghostVars>>

play == /\ Len(plays) < MaxPlays
        /\ \E d \in Outcomes : ensure_stream(d)
        /\ stream'
        /\ \E i \in 1 .. Len(sounds), looping \in BOOLEAN, vol_q8 \in Volumes :
             LET pcm == prepare(i, device')
                 v   == alloc_voice
                 n   == Len(plays) + 1
             IN /\ sounds' = [sounds EXCEPT ![i].resampled = pcm]
                /\ arcs' = IF pcm.id > arcs THEN pcm.id ELSE arcs
                /\ next_slot' = (v.slot + 1) % MAX_VOICES
                /\ generations' = [generations EXCEPT ![v.slot] = v.generation]
                /\ send_cmd(Play(v.slot, v.generation, pcm, vol_q8, looping, n))
                /\ plays' = Append(plays, voice_id(v.slot, v.generation))
                /\ board' = [board EXCEPT ![n] = [sent |-> Accepts, vol_q8 |-> vol_q8,
                                                  pan_q8 |-> Center, stopped |-> FALSE]]
        /\ UNCHANGED callbackVars

(* The plays an id stands for: at most one while ids do not repeat. *)
PlaysOf(id) == {n \in 1 .. Len(plays) : plays[n] = id}

Ids == {plays[n] : n \in 1 .. Len(plays)} \cup MadeUpIds

(* stop(voice): any id, known, finished, stolen or made up.  With no       *)
(* stream there is no ring to send to.                                     *)
stop == /\ stream
        /\ \E id \in Ids :
             /\ send_cmd(Stop(decode_voice(id)))
             /\ board' = [n \in PlayNos |-> IF Accepts /\ n \in PlaysOf(id)
                                            THEN [board[n] EXCEPT !.stopped = TRUE]
                                            ELSE board[n]]
        /\ UNCHANGED <<gameVars, callbackVars, plays>>

tune == /\ stream
        /\ \E id \in Ids, t \in Tunings :
             /\ send_cmd(Tune(decode_voice(id), t[1], t[2]))
             /\ board' = [n \in PlayNos |-> IF Accepts /\ n \in PlaysOf(id)
                                            THEN [board[n] EXCEPT !.vol_q8 = t[1],
                                                    !.pan_q8 = IF t[2] < 255 THEN t[2] ELSE 255]
                                            ELSE board[n]]
        /\ UNCHANGED <<gameVars, callbackVars, plays>>

-------------------------------------------------------------------------------
(* The device callback, Mixer::fill: drain the ring, then fill the slots.  *)
(* Between two callbacks it is about to drain.                             *)

drain == /\ cb = "drain" /\ stream
         /\ cmds # <<>>
         /\ voices' = apply(voices, Head(cmds))
         /\ cmds' = Tail(cmds)
         /\ UNCHANGED <<gameVars, cb, left, ghostVars>>

(* The ring was found empty: the callback goes on to fill its slots. *)
fill == /\ cb = "drain" /\ stream
        /\ cmds = <<>>
        /\ cb' = "mix"
        /\ left' \in 1 .. MaxFill
        /\ UNCHANGED <<gameVars, cmds, voices, ghostVars>>

mix_sample == /\ cb = "mix"
              /\ voices' = [s \in Slots |-> advance(voices[s])]
              /\ left' = left - 1
              /\ cb' = IF left = 1 THEN "drain" ELSE "mix"
              /\ UNCHANGED <<gameVars, cmds, ghostVars>>

-------------------------------------------------------------------------------
Game == \/ audio_spec \/ sound \/ PlayNothing \/ play \/ stop \/ tune
Callback == fill \/ drain \/ mix_sample

Next == Game \/ Callback

(* The device keeps calling back and a callback runs on, once it opened;   *)
(* nothing is assumed of the game thread.                                  *)
Spec == Init /\ [][Next]_vars /\ WF_vars(Callback)

-------------------------------------------------------------------------------
(* mix_sample never indexes past a voice's buffer: whatever mix of starts, *)
(* steals, stops and wraps a slot went through, a voice that will be read  *)
(* stands inside the buffer it has now.                                    *)
PosInBuffer == \A s \in Slots : Reads(voices[s]) => voices[s].pos < voices[s].pcm.len

(* The comment on Mixer::apply: dropping a voice's Arc in the real-time    *)
(* callback never frees a buffer, because the registry still holds every   *)
(* buffer a voice or a command in flight refers to.                        *)
Held == {sounds[i].resampled : i \in 1 .. Len(sounds)}
CallbackNeverFrees ==
    /\ \A s \in Slots : voices[s].pcm = NoBuffer \/ voices[s].pcm \in Held
    /\ \A i \in 1 .. Len(cmds) : cmds[i].op = "play" => cmds[i].pcm \in Held

(* The pool as it will be once the callback has drained the ring. *)
DrainedBy[n \in 0 .. Len(cmds)] ==
    IF n = 0 THEN voices ELSE apply(DrainedBy[n - 1], cmds[n])
Drained == DrainedBy[Len(cmds)]

(* Slots and generations are invisible to a program: once the ring is      *)
(* drained, each voice has exactly the volume, pan and stop that the       *)
(* accepted commands for its own play call asked for, and a voice falls    *)
(* silent early only if its own id was stopped.                            *)
CommandsReachTheirVoice ==
    \A s \in Slots :
      LET v == Drained[s] IN
      v.play # 0 => /\ v.vol_q8 = board[v.play].vol_q8
                    /\ v.pan_q8 = board[v.play].pan_q8
                    /\ board[v.play].stopped => ~v.active
                    /\ ~v.active /\ v.pos < v.pcm.len => board[v.play].stopped

(* "Beyond this, the oldest slot is stolen": of the last MAX_VOICES play   *)
(* calls, each one whose command was accepted still has its slot.          *)
OldestIsStolen ==
    \A n \in 1 .. Len(plays) :
      n > Len(plays) - MAX_VOICES /\ board[n].sent
        => \E s \in Slots : Drained[s].play = n

(* resample reads only samples the sound has, and only empty output for a  *)
(* sound too short to fill one device frame.                               *)
ResampleInRange ==
    \A i \in 1 .. Len(sounds) :
      device # NoFormat =>
        LET out == resample(sounds[i], device) IN
        \A j \in 1 .. Len(out) : out[j] \subseteq 0 .. sounds[i].len - 1

(* An accepted stop is heard: the voice of that play call falls silent,    *)
(* however much the game thread sends meanwhile.                           *)
Sounding(n) == \E s \in Slots : voices[s].play = n /\ voices[s].active
StopsAreHeard == \A n \in PlayNos : board[n].stopped ~> ~Sounding(n)
==============================================================================
