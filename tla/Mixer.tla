-------------------------------- MODULE Mixer --------------------------------
(***************************************************************************)
(* The data of the sound mixer (crates/gg-backend/src/lib.rs, mod mixer)   *)
(* and what its functions compute: voice ids, the effect of one command on *)
(* the voice pool, one output slot's advance of a voice, and resampling.   *)
(* A buffer is [id, len]: its identity as an Arc and its sample count.     *)
(***************************************************************************)
EXTENDS Integers, Sequences, SequencesExt

CONSTANTS MAX_VOICES,  \* the size of the voice pool (64)
          GenMod       \* VOICE_GEN_MASK + 1 (2^25)

ASSUME MixerAssumption == /\ MAX_VOICES \in Nat \ {0}
                          /\ GenMod \in Nat \ {0}

Slots == 0 .. MAX_VOICES - 1
VoiceIds == 1 .. GenMod * MAX_VOICES

NoBuffer == [id |-> 0, len |-> 0]
Center == 128

voice_id(slot, generation) == (generation % GenMod) * MAX_VOICES + slot + 1

(* Only for ids other than 0, which the callers turn away. *)
decode_voice(id) == [slot |-> (id - 1) % MAX_VOICES,
                     generation |-> (id - 1) \div MAX_VOICES]

(* play is a ghost: the number of the play call that started the voice. *)
idle == [pcm |-> NoBuffer, generation |-> 0, pos |-> 0, vol_q8 |-> 0,
         pan_q8 |-> Center, looping |-> FALSE, active |-> FALSE, play |-> 0]

Play(slot, generation, pcm, vol_q8, looping, play) ==
    [op |-> "play", slot |-> slot, generation |-> generation, pcm |-> pcm,
     vol_q8 |-> vol_q8, looping |-> looping, play |-> play]

Stop(v) == [op |-> "stop", slot |-> v.slot, generation |-> v.generation]

Tune(v, vol_q8, pan_q8) ==
    [op |-> "tune", slot |-> v.slot, generation |-> v.generation,
     vol_q8 |-> vol_q8, pan_q8 |-> pan_q8]

(* The voice a Play command puts in its slot. *)
Started(cmd) ==
    [pcm |-> cmd.pcm, generation |-> cmd.generation, pos |-> 0,
     vol_q8 |-> cmd.vol_q8, pan_q8 |-> Center, looping |-> cmd.looping,
     active |-> TRUE, play |-> cmd.play]

(* apply without the generation comparison of Stop: a stale stop silences  *)
(* whatever voice has the slot now.                                        *)
apply_mutant(voices, cmd) ==
    CASE cmd.op = "play" -> [voices EXCEPT ![cmd.slot] = Started(cmd)]
      [] cmd.op = "stop" -> [voices EXCEPT ![cmd.slot].active = FALSE]
      [] OTHER -> voices

(* apply with a Play that keeps the slot's old position. *)
apply_pos_mutant(voices, cmd) ==
    IF cmd.op = "play"
    THEN [voices EXCEPT ![cmd.slot] = [Started(cmd) EXCEPT !.pos = voices[cmd.slot].pos]]
    ELSE voices

(* apply with a Stop that never matches. *)
apply_deaf_mutant(voices, cmd) ==
    IF cmd.op = "play"
    THEN [voices EXCEPT ![cmd.slot] = Started(cmd)]
    ELSE voices

(* One command applied to the pool: a Play always wins its slot; a Stop or *)
(* a Tune reaches the voice only if it is still of the command's           *)
(* generation.                                                             *)
apply(voices, cmd) ==
    LET v == voices[cmd.slot] IN
    CASE cmd.op = "play" -> [voices EXCEPT ![cmd.slot] = Started(cmd)]
      [] cmd.op = "stop" /\ v.generation = cmd.generation ->
           [voices EXCEPT ![cmd.slot].active = FALSE]
      [] cmd.op = "tune" /\ v.generation = cmd.generation ->
           [voices EXCEPT ![cmd.slot].vol_q8 = cmd.vol_q8,
                          ![cmd.slot].pan_q8 = IF cmd.pan_q8 < 255 THEN cmd.pan_q8 ELSE 255]
      [] OTHER -> voices

(* What one output slot does to one voice: an empty buffer ends it, the    *)
(* last sample wraps a looping voice and ends a one-shot.                  *)
advance(v) ==
    LET pos == v.pos + 1 IN
    CASE ~v.active -> v
      [] v.active /\ v.pcm.len = 0 -> [v EXCEPT !.active = FALSE]
      [] v.active /\ v.pcm.len # 0 /\ pos < v.pcm.len -> [v EXCEPT !.pos = pos]
      [] OTHER -> [v EXCEPT !.pos = IF v.looping THEN 0 ELSE pos, !.active = v.looping]

(* The sample index a voice reads for this slot; the code indexes its      *)
(* buffer with it, unchecked but for the bounds panic.                     *)
Reads(v) == v.active /\ v.pcm.len # 0

AtLeastOne(n) == IF n = 0 THEN 1 ELSE n

(* resample that counts samples where it should count frames.              *)
resample_mutant(s, dev) ==
    LET dst_ch     == AtLeastOne(dev.channels)
        dst_frames == (s.len * dev.rate) \div s.rate
        base(i)    == ((((i - 1) \div dst_ch) * s.rate) \div dev.rate) * s.channels
    IN [i \in 1 .. dst_frames * dst_ch |-> {base(i) + ((i - 1) % dst_ch)}]

(* resample, as the source sample indices each output sample is made from. *)
(* The registry never keeps a sound with rate or channels 0.               *)
resample(s, dev) ==
    LET src_ch     == s.channels
        dst_ch     == AtLeastOne(dev.channels)
        src_frames == s.len \div src_ch
        dst_rate   == IF dev.rate = 0 THEN s.rate ELSE dev.rate
        dst_frames == (src_frames * dst_rate) \div s.rate
        frame(f)   == LET sf == (f * s.rate) \div dst_rate
                      IN  IF sf < src_frames - 1 THEN sf ELSE src_frames - 1
        base(i)    == frame((i - 1) \div dst_ch) * src_ch
        chan(i)    == (i - 1) % dst_ch
    IN [i \in 1 .. dst_frames * dst_ch |->
          CASE dst_ch = src_ch                -> {base(i) + chan(i)}
            [] dst_ch # src_ch /\ src_ch = 1  -> {base(i)}
            [] dst_ch = 1 /\ src_ch > 1       -> base(i) .. base(i) + src_ch - 1
            [] OTHER -> IF chan(i) < src_ch THEN {base(i) + chan(i)} ELSE {}]
==============================================================================
