---------------------------- MODULE AudioProofs ----------------------------
(***************************************************************************)
(* Proofs about the audio path, for any pool, ring, sounds and formats.    *)
(***************************************************************************)
EXTENDS AudioOutput, BasicLemmas, SequenceTheorems, TLAPS

-----------------------------------------------------------------------------
Buffer == [id : Nat, len : Nat]
Format == [channels : Nat, rate : Nat]
Sound == [len : Nat, channels : Nat \ {0}, rate : Nat \ {0}, resampled : Buffer]
Voice == [pcm : Buffer, generation : Nat, pos : Nat, vol_q8 : Nat, pan_q8 : Nat,
          looping : BOOLEAN, active : BOOLEAN, play : Nat]
Plays == [op : {"play"}, slot : Slots, generation : Nat, pcm : Buffer, vol_q8 : Nat,
          looping : BOOLEAN, play : Nat]
Stops == [op : {"stop"}, slot : Slots, generation : Nat]
Tunes == [op : {"tune"}, slot : Slots, generation : Nat, vol_q8 : Nat, pan_q8 : Nat]
Command == Plays \cup Stops \cup Tunes

(* The types of what the properties read: *)
AudioTypes == /\ device \in Format
              /\ sounds \in Seq(Sound) /\ arcs \in Nat
              /\ generations \in [Slots -> Nat] /\ next_slot \in Slots
              /\ cmds \in Seq(Command)
              /\ voices \in [Slots -> Voice]
              /\ plays \in Seq(Nat \ {0})

(* A command in flight carries a buffer that was made, which the registry  *)
(* never gives up: without the second part the first play of another sound *)
(* could replace the placeholder a command refers to.                      *)
BuffersHeld == /\ \A s \in Slots : voices[s].pcm = NoBuffer \/ voices[s].pcm \in Held
               /\ \A i \in 1 .. Len(cmds) :
                    cmds[i].op = "play" => cmds[i].pcm \in Held /\ cmds[i].pcm # NoBuffer

AudioInv == AudioTypes /\ BuffersHeld /\ PosInBuffer

-----------------------------------------------------------------------------
(* A resampled buffer has a length, whatever the formats. *)
LEMMA Resampled ==
    ASSUME NEW s \in Sound, NEW d \in Format
    PROVE  Len(resample(s, d)) \in Nat
<1> DEFINE dst_ch     == AtLeastOne(d.channels)
           src_frames == s.len \div s.channels
           dst_rate   == IF d.rate = 0 THEN s.rate ELSE d.rate
           dst_frames == (src_frames * dst_rate) \div s.rate
           n          == dst_frames * dst_ch
           out        == resample(s, d)
<1>1. src_frames \in Nat
  BY Division DEF Sound
<1>2. dst_rate \in Nat /\ dst_ch \in Nat
  BY DEF Sound, Format, AtLeastOne
<1>3. src_frames * dst_rate \in Nat
  BY <1>1, <1>2, Z3
<1>4. dst_frames \in Nat
  BY <1>3, Division DEF Sound
<1>5. n \in Nat
  BY <1>4, <1>2, Z3
<1>6. DOMAIN out = 1 .. n /\ out \in [1 .. n -> {out[i] : i \in 1 .. n}]
  BY Zenon DEF resample
<1>7. out \in Seq({out[i] : i \in 1 .. n})
  <2> HIDE DEF n, out
  <2> QED BY <1>5, <1>6
<1> QED
  <2> HIDE DEF out
  <2> QED BY <1>7

(* What one command does to the pool: it starts a voice in its slot, or    *)
(* leaves the buffers and the positions as they are and wakes no voice.    *)
LEMMA Apply ==
    ASSUME NEW pool \in [Slots -> Voice], NEW c \in Command
    PROVE  /\ apply(pool, c) \in [Slots -> Voice]
           /\ \A s \in Slots :
                \/ c.op = "play" /\ apply(pool, c)[s] = Started(c)
                \/ /\ apply(pool, c)[s].pcm = pool[s].pcm
                   /\ apply(pool, c)[s].pos = pool[s].pos
                   /\ apply(pool, c)[s].active => pool[s].active
<1>1. CASE c \in Plays
  <2>1. Started(c) \in Voice
    BY <1>1 DEF Plays, Started, Voice, Center
  <2>2. apply(pool, c) = [pool EXCEPT ![c.slot] = Started(c)]
    BY <1>1 DEF Plays, apply
  <2> QED BY <1>1, <2>1, <2>2 DEF Plays
<1>2. CASE c \in Stops
  <2>1. \/ apply(pool, c) = pool
        \/ apply(pool, c) = [pool EXCEPT ![c.slot].active = FALSE]
    BY <1>2 DEF Stops, apply
  <2>2. ASSUME NEW v \in Voice PROVE LET w == [v EXCEPT !.active = FALSE] IN
               w \in Voice /\ w.pcm = v.pcm /\ w.pos = v.pos /\ ~w.active
    BY DEF Voice
  <2>3. c.slot \in Slots
    BY <1>2 DEF Stops
  <2>4. [pool[c.slot] EXCEPT !.active = FALSE] \in Voice
    BY <2>2, <2>3
  <2> QED BY <2>1, <2>2, <2>3, <2>4
<1>3. CASE c \in Tunes
  <2>1. \/ apply(pool, c) = pool
        \/ apply(pool, c) =
             [pool EXCEPT ![c.slot].vol_q8 = c.vol_q8,
                          ![c.slot].pan_q8 = IF c.pan_q8 < 255 THEN c.pan_q8 ELSE 255]
    BY <1>3 DEF Tunes, apply
  <2>2. c.slot \in Slots /\ c.vol_q8 \in Nat /\ c.pan_q8 \in Nat
    BY <1>3 DEF Tunes
  <2> DEFINE p == IF c.pan_q8 < 255 THEN c.pan_q8 ELSE 255
             w == [pool[c.slot] EXCEPT !.vol_q8 = c.vol_q8, !.pan_q8 = p]
  <2>3. /\ w \in Voice /\ w.pcm = pool[c.slot].pcm /\ w.pos = pool[c.slot].pos
        /\ w.active => pool[c.slot].active
    <3>1. pool[c.slot] \in Voice /\ p \in Nat
      BY <2>2
    <3>2. ASSUME NEW v \in Voice, NEW a \in Nat, NEW b \in Nat
          PROVE  LET u == [v EXCEPT !.vol_q8 = a, !.pan_q8 = b] IN
                 /\ u \in Voice /\ u.pcm = v.pcm /\ u.pos = v.pos
                 /\ u.active => v.active
      BY DEF Voice
    <3> HIDE DEF p
    <3> QED BY Zenon, <2>2, <3>1, <3>2
  <2>4. apply(pool, c) \in {pool, [pool EXCEPT ![c.slot] = w]}
    BY <2>1, <2>2
  <2> HIDE DEF w
  <2> QED BY <2>2, <2>3, <2>4
<1> QED BY <1>1, <1>2, <1>3 DEF Command

(* One output slot keeps a voice's buffer, and its position inside it.     *)
LEMMA Advance ==
    ASSUME NEW v \in Voice, Reads(v) => v.pos < v.pcm.len
    PROVE  /\ advance(v) \in Voice
           /\ advance(v).pcm = v.pcm
           /\ Reads(advance(v)) => advance(v).pos < v.pcm.len
<1>1. CASE ~v.active
  <2>1. advance(v) = v
    BY <1>1 DEF advance
  <2> QED BY <2>1
<1>2. CASE v.active /\ v.pcm.len = 0
  <2>1. advance(v) = [v EXCEPT !.active = FALSE]
    BY <1>2 DEF advance
  <2> QED BY <2>1 DEF Voice, Reads
<1>3. CASE v.active /\ v.pcm.len # 0 /\ v.pos + 1 < v.pcm.len
  <2>1. advance(v) = [v EXCEPT !.pos = v.pos + 1]
    BY <1>3 DEF advance
  <2> QED BY <1>3, <2>1 DEF Voice, Reads
<1>4. CASE v.active /\ v.pcm.len # 0 /\ ~(v.pos + 1 < v.pcm.len)
  <2>1. v.pos \in Nat /\ v.pcm.len \in Nat /\ v.looping \in BOOLEAN
    BY DEF Voice, Buffer
  <2>2. advance(v) = [v EXCEPT !.pos = IF v.looping THEN 0 ELSE v.pos + 1,
                               !.active = v.looping]
    BY <1>4 DEF advance
  <2>3. ASSUME NEW n \in Nat, NEW b \in BOOLEAN, advance(v) = [v EXCEPT !.pos = n, !.active = b]
        PROVE  /\ advance(v) \in Voice /\ advance(v).pcm = v.pcm
               /\ advance(v).pos = n /\ advance(v).active = b
    BY <2>3 DEF Voice
  <2>4. CASE v.looping = TRUE
    <3>1. advance(v) = [v EXCEPT !.pos = 0, !.active = TRUE]
      BY <2>2, <2>4
    <3>2. advance(v) \in Voice /\ advance(v).pcm = v.pcm /\ advance(v).pos = 0
      BY Zenon, <2>3, <3>1, 0 \in Nat
    <3>3. 0 < v.pcm.len
      BY <1>4, <2>1
    <3> QED BY <3>2, <3>3
  <2>5. CASE v.looping = FALSE
    <3>1. advance(v) = [v EXCEPT !.pos = v.pos + 1, !.active = FALSE]
      BY <2>2, <2>5
    <3>2. v.pos + 1 \in Nat
      BY <2>1
    <3>3. advance(v) \in Voice /\ advance(v).pcm = v.pcm /\ advance(v).active = FALSE
      BY Zenon, <2>3, <3>1, <3>2
    <3> QED BY <3>3 DEF Reads
  <2> QED BY <2>1, <2>4, <2>5
<1> QED BY <1>1, <1>2, <1>3, <1>4 DEF Voice
-----------------------------------------------------------------------------
LEMMA InitAudio == Init => AudioInv
<1> SUFFICES ASSUME Init PROVE AudioInv
  OBVIOUS
<1>1. 0 \in Slots /\ idle \in Voice /\ NoFormat \in Format
  BY MixerAssumption DEF Slots, idle, Voice, Buffer, NoBuffer, Center, NoFormat, Format
<1>2. AudioTypes
  BY <1>1 DEF Init, AudioTypes
<1>3. BuffersHeld /\ PosInBuffer
  BY DEF Init, BuffersHeld, PosInBuffer, Reads, idle
<1> QED BY <1>2, <1>3 DEF AudioInv

(* What the game thread does to the ring and the registry keeps every      *)
(* buffer held, as long as it gives none up.                               *)
LEMMA GameBuffers ==
    ASSUME AudioInv, AudioTypes', UNCHANGED voices,
           \A b \in Held : b # NoBuffer => b \in Held',
           \/ UNCHANGED cmds
           \/ \E c \in Command : /\ cmds' = Append(cmds, c)
                                 /\ c.op = "play" => c.pcm \in Held' /\ c.pcm # NoBuffer
    PROVE  AudioInv'
<1>1. PosInBuffer'
  BY DEF AudioInv, PosInBuffer
<1>2. \A s \in Slots : voices'[s].pcm = NoBuffer \/ voices'[s].pcm \in Held'
  BY DEF AudioInv, BuffersHeld
<1>3. ASSUME NEW i \in 1 .. Len(cmds'), cmds'[i].op = "play"
      PROVE  cmds'[i].pcm \in Held' /\ cmds'[i].pcm # NoBuffer
  <2>1. CASE UNCHANGED cmds
    BY <1>3, <2>1 DEF AudioInv, BuffersHeld
  <2>2. CASE \E c \in Command : /\ cmds' = Append(cmds, c)
                                /\ c.op = "play" => c.pcm \in Held' /\ c.pcm # NoBuffer
    <3>1. PICK c \in Command : /\ cmds' = Append(cmds, c)
                               /\ c.op = "play" => c.pcm \in Held' /\ c.pcm # NoBuffer
      BY <2>2
    <3>2. /\ Len(cmds') = Len(cmds) + 1 /\ cmds'[Len(cmds) + 1] = c
          /\ \A j \in 1 .. Len(cmds) : cmds'[j] = cmds[j]
      BY <3>1 DEF AudioInv, AudioTypes
    <3>3. Len(cmds) \in Nat
      BY DEF AudioInv, AudioTypes
    <3>4. CASE i = Len(cmds) + 1
      BY <1>3, <3>1, <3>2, <3>4
    <3>5. CASE i \in 1 .. Len(cmds)
      BY <1>3, <3>2, <3>5 DEF AudioInv, BuffersHeld
    <3> QED BY <3>2, <3>3, <3>4, <3>5
  <2> QED BY <2>1, <2>2
<1> QED BY <1>1, <1>2, <1>3 DEF AudioInv, BuffersHeld

LEMMA Devices == ASSUME AudioInv, NEW d \in Outcomes PROVE d \in Format
BY AudioAssumption DEF AudioInv, AudioTypes, Outcomes, Format, NoFormat

(* The ids a program can name: positive, so they decode to a slot.         *)
LEMMA Decoded ==
    ASSUME AudioInv, NEW id \in Ids
    PROVE  /\ id \in Nat \ {0}
           /\ decode_voice(id).slot \in Slots /\ decode_voice(id).generation \in Nat
<1>1. \A n \in 1 .. Len(plays) : plays[n] \in Nat \ {0}
  BY ElementOfSeq DEF AudioInv, AudioTypes
<1>2. MadeUpIds \subseteq Nat \ {0}
  <2>1. GenMod * MAX_VOICES \in Nat
    BY MixerAssumption, Z3
  <2> QED BY <2>1, AudioAssumption DEF VoiceIds
<1>3. id \in Nat \ {0}
  BY <1>1, <1>2 DEF Ids
<1>4. id - 1 \in Nat
  BY <1>3
<1> QED BY <1>3, <1>4, Division, MixerAssumption DEF decode_voice, Slots

LEMMA SoundStep == ASSUME AudioInv, sound PROVE AudioInv'
<1>1. PICK s \in Shapes :
        sounds' = Append(sounds, [len |-> s.len, channels |-> AtLeastOne(s.channels),
                                  rate |-> IF s.rate = 0 THEN 44100 ELSE s.rate,
                                  resampled |-> NoBuffer])
  BY DEF sound
<1> DEFINE e == [len |-> s.len, channels |-> AtLeastOne(s.channels),
                 rate |-> IF s.rate = 0 THEN 44100 ELSE s.rate, resampled |-> NoBuffer]
<1>2. e \in Sound
  BY AudioAssumption DEF Sound, AtLeastOne, Buffer, NoBuffer
<1>3. sounds \in Seq(Sound)
  BY DEF AudioInv, AudioTypes
<1>4. AudioTypes'
  <2> HIDE DEF e
  <2>1. sounds' \in Seq(Sound)
    BY <1>1, <1>2, <1>3 DEF e
  <2> QED BY <2>1 DEF AudioInv, AudioTypes, sound, callbackVars, ghostVars
<1>5. \A b \in Held : b \in Held'
  <2> HIDE DEF e
  <2>1. Len(sounds') = Len(sounds) + 1 /\ \A i \in 1 .. Len(sounds) : sounds'[i] = sounds[i]
    BY <1>1, <1>2, <1>3
  <2>2. 1 .. Len(sounds) \subseteq 1 .. Len(sounds')
    BY <2>1, <1>3
  <2> QED BY <2>1, <2>2 DEF Held
<1> QED BY <1>4, <1>5, GameBuffers DEF sound, callbackVars

LEMMA PlayStep == ASSUME AudioInv, play PROVE AudioInv'
<1>1. device' \in Format
  BY Devices DEF play, ensure_stream
<1>2. PICK i \in 1 .. Len(sounds), looping \in BOOLEAN, vol_q8 \in Volumes :
        LET pcm == prepare(i, device')
            v   == alloc_voice
            n   == Len(plays) + 1
        IN /\ sounds' = [sounds EXCEPT ![i].resampled = pcm]
           /\ arcs' = IF pcm.id > arcs THEN pcm.id ELSE arcs
           /\ next_slot' = (v.slot + 1) % MAX_VOICES
           /\ generations' = [generations EXCEPT ![v.slot] = v.generation]
           /\ send_cmd(Play(v.slot, v.generation, pcm, vol_q8, looping, n))
           /\ plays' = Append(plays, voice_id(v.slot, v.generation))
  BY DEF play
<1> DEFINE pcm == prepare(i, device')
           n   == Len(plays) + 1
           s   == next_slot
           g   == (generations[next_slot] + 1) % GenMod
           c   == Play(s, g, pcm, vol_q8, looping, n)
<1>3. /\ sounds' = [sounds EXCEPT ![i].resampled = pcm]
      /\ arcs' = IF pcm.id > arcs THEN pcm.id ELSE arcs
      /\ next_slot' = (s + 1) % MAX_VOICES
      /\ generations' = [generations EXCEPT ![s] = g]
      /\ cmds' = Append(cmds, c) \/ UNCHANGED cmds
      /\ plays' = Append(plays, voice_id(s, g))
  BY <1>2 DEF alloc_voice, send_cmd
<1>4. /\ sounds \in Seq(Sound) /\ arcs \in Nat /\ plays \in Seq(Nat \ {0})
      /\ s \in Slots /\ generations \in [Slots -> Nat] /\ cmds \in Seq(Command)
      /\ sounds[i] \in Sound
  BY ElementOfSeq DEF AudioInv, AudioTypes
<1>5. pcm \in Buffer /\ pcm # NoBuffer
  <2>1. Len(resample(sounds[i], device')) \in Nat
    BY <1>1, <1>4, Resampled
  <2>2. CASE sounds[i].resampled = NoBuffer
    <3>1. pcm = [id |-> arcs + 1, len |-> Len(resample(sounds[i], device'))]
      BY <2>2 DEF prepare
    <3>2. pcm.id = arcs + 1 /\ pcm \in Buffer
      BY <1>4, <2>1, <3>1 DEF Buffer
    <3> QED BY <1>4, <3>2 DEF NoBuffer
  <2>3. CASE sounds[i].resampled # NoBuffer
    BY <1>4, <2>3 DEF prepare, Sound
  <2> QED BY <2>2, <2>3
<1>6. g \in Nat /\ s + 1 \in Nat
  <2>1. generations[s] + 1 \in Nat
    BY <1>4
  <2>2. s + 1 \in Nat
    BY <1>4, MixerAssumption DEF Slots
  <2>3. g \in Nat
    <3> DEFINE x == generations[s] + 1
    <3> HIDE DEF x
    <3>1. x % GenMod \in 0 .. GenMod - 1
      BY <2>1, Division, MixerAssumption DEF x
    <3> QED BY <3>1 DEF x
  <2> QED BY <2>2, <2>3
<1>7. c \in Command
  <2>1. vol_q8 \in Nat /\ n \in Nat
    BY AudioAssumption, <1>4
  <2> HIDE DEF pcm, g, n
  <2> QED BY <1>4, <1>5, <1>6, <2>1 DEF Play, Plays, Command
<1>8. sounds' \in Seq(Sound) /\ Len(sounds') = Len(sounds)
      /\ sounds'[i].resampled = pcm
      /\ \A j \in 1 .. Len(sounds) : j # i => sounds'[j] = sounds[j]
  <2> DEFINE e == [sounds[i] EXCEPT !.resampled = pcm]
  <2> HIDE DEF pcm
  <2>1. e \in Sound /\ e.resampled = pcm
    BY <1>4, <1>5 DEF Sound
  <2>2. sounds' = [sounds EXCEPT ![i] = e]
    BY <1>3
  <2> HIDE DEF e
  <2> QED BY <1>4, <2>1, <2>2
<1>9. voice_id(s, g) \in Nat \ {0}
  <2> HIDE DEF g
  <2>1. g % GenMod \in Nat
    BY <1>6, Division, MixerAssumption
  <2>2. (g % GenMod) * MAX_VOICES \in Nat
    <3> DEFINE r == g % GenMod
    <3> HIDE DEF r
    <3> QED BY <2>1, MixerAssumption, Z3
  <2> QED BY <1>4, <2>2 DEF voice_id, Slots
<1>10. AudioTypes'
  <2>1. arcs' \in Nat
    BY <1>3, <1>4, <1>5 DEF Buffer
  <2>2. next_slot' \in Slots
    BY <1>3, <1>6, Division, MixerAssumption DEF Slots
  <2>3. generations' \in [Slots -> Nat]
    <3> HIDE DEF g
    <3> QED BY <1>3, <1>4, <1>6
  <2>4. cmds' \in Seq(Command)
    <3> HIDE DEF c
    <3>1. Append(cmds, c) \in Seq(Command)
      BY <1>4, <1>7
    <3> QED BY Zenon, <1>3, <1>4, <3>1
  <2>5. plays' \in Seq(Nat \ {0})
    BY <1>3, <1>4, <1>9
  <2>6. voices' \in [Slots -> Voice]
    BY DEF AudioInv, AudioTypes, play, callbackVars
  <2> QED BY <1>1, <1>8, <2>1, <2>2, <2>3, <2>4, <2>5, <2>6 DEF AudioTypes
<1>11. \A b \in Held : b # NoBuffer => b \in Held'
  <2> SUFFICES ASSUME NEW j \in 1 .. Len(sounds), sounds[j].resampled # NoBuffer
               PROVE  sounds[j].resampled \in Held'
    BY DEF Held
  <2>1. sounds'[j].resampled = sounds[j].resampled
    BY <1>8 DEF prepare
  <2> QED BY <1>8, <2>1 DEF Held
<1>12. pcm \in Held'
  BY <1>8 DEF Held
<1>13. c.pcm = pcm
  BY DEF Play
<1> HIDE DEF c, pcm
<1> QED BY <1>3, <1>5, <1>7, <1>10, <1>11, <1>12, <1>13, GameBuffers DEF play, callbackVars

LEMMA SendStep == ASSUME AudioInv, stop \/ tune PROVE AudioInv'
<1>1. PICK c \in Stops \cup Tunes : cmds' = Append(cmds, c) \/ UNCHANGED cmds
  <2>1. CASE stop
    <3>1. PICK id \in Ids : send_cmd(Stop(decode_voice(id)))
      BY <2>1 DEF stop
    <3>2. Stop(decode_voice(id)) \in Stops
      BY Decoded DEF Stop, Stops
    <3> QED BY <3>1, <3>2 DEF send_cmd
  <2>2. CASE tune
    <3>1. PICK id \in Ids, t \in Tunings : send_cmd(Tune(decode_voice(id), t[1], t[2]))
      BY <2>2 DEF tune
    <3>2. t[1] \in Nat /\ t[2] \in Nat
      BY AudioAssumption
    <3>3. Tune(decode_voice(id), t[1], t[2]) \in Tunes
      BY <3>2, Decoded DEF Tune, Tunes
    <3> QED BY <3>1, <3>3 DEF send_cmd
  <2> QED BY <2>1, <2>2
<1>2. c \in Command /\ c.op # "play"
  BY DEF Command, Stops, Tunes
<1>3. UNCHANGED <<gameVars, callbackVars, plays>>
  BY DEF stop, tune
<1>4. AudioTypes'
  <2>1. cmds' \in Seq(Command)
    <3>1. cmds \in Seq(Command)
      BY DEF AudioInv, AudioTypes
    <3>2. Append(cmds, c) \in Seq(Command)
      BY <1>2, <3>1
    <3> QED BY Zenon, <1>1, <3>1, <3>2
  <2> QED BY <1>3, <2>1 DEF AudioInv, AudioTypes, gameVars, callbackVars
<1>5. Held' = Held
  BY <1>3 DEF Held, gameVars
<1> QED BY <1>1, <1>2, <1>3, <1>4, <1>5, GameBuffers DEF callbackVars

(* The callback takes the oldest command and gives it to the pool. *)
LEMMA DrainStep == ASSUME AudioInv, drain PROVE AudioInv'
<1> DEFINE c == Head(cmds)
<1>1. cmds \in Seq(Command) /\ cmds # <<>> /\ voices \in [Slots -> Voice]
  BY DEF AudioInv, AudioTypes, drain
<1>2. /\ c \in Command /\ c = cmds[1] /\ 1 \in 1 .. Len(cmds)
      /\ cmds' \in Seq(Command)
      /\ \A i \in 1 .. Len(cmds') : i + 1 \in 1 .. Len(cmds) /\ cmds'[i] = cmds[i + 1]
  BY <1>1 DEF drain
<1>3. UNCHANGED <<gameVars, plays>> /\ voices' = apply(voices, c)
  BY DEF drain, ghostVars
<1> HIDE DEF c
<1>4. AudioTypes'
  BY <1>1, <1>2, <1>3, Apply DEF AudioInv, AudioTypes, gameVars
<1>5. Held' = Held
  BY <1>3 DEF Held, gameVars
<1>6. c.op = "play" => c.pcm \in Held
  BY <1>2 DEF AudioInv, BuffersHeld
<1>7. ASSUME NEW s \in Slots
      PROVE  /\ voices'[s].pcm = NoBuffer \/ voices'[s].pcm \in Held
             /\ Reads(voices'[s]) => voices'[s].pos < voices'[s].pcm.len
  <2>1. CASE c.op = "play" /\ voices'[s] = Started(c)
    <3>1. c.pcm \in Buffer
      BY <1>2, <2>1 DEF Command, Plays, Stops, Tunes
    <3>2. voices'[s].pcm = c.pcm /\ voices'[s].pos = 0
      BY <2>1 DEF Started
    <3> QED BY <1>6, <2>1, <3>1, <3>2 DEF Reads, Buffer
  <2>2. CASE /\ voices'[s].pcm = voices[s].pcm
             /\ voices'[s].pos = voices[s].pos
             /\ voices'[s].active => voices[s].active
    BY <2>2 DEF AudioInv, BuffersHeld, PosInBuffer, Reads
  <2> QED BY <1>1, <1>2, <1>3, <2>1, <2>2, Apply
<1>8. BuffersHeld'
  BY <1>2, <1>5, <1>7 DEF AudioInv, BuffersHeld
<1> QED BY <1>4, <1>7, <1>8 DEF AudioInv, PosInBuffer

LEMMA MixStep == ASSUME AudioInv, mix_sample PROVE AudioInv'
<1>1. /\ voices \in [Slots -> Voice] /\ voices' = [s \in Slots |-> advance(voices[s])]
      /\ UNCHANGED <<gameVars, cmds, plays>>
  BY DEF AudioInv, AudioTypes, mix_sample, ghostVars
<1>2. ASSUME NEW s \in Slots
      PROVE  /\ voices'[s] \in Voice /\ voices'[s].pcm = voices[s].pcm
             /\ Reads(voices'[s]) => voices'[s].pos < voices'[s].pcm.len
  BY <1>1, Advance DEF AudioInv, PosInBuffer
<1>3. AudioTypes'
  BY <1>1, <1>2 DEF AudioInv, AudioTypes, gameVars
<1>4. BuffersHeld'
  BY <1>1, <1>2 DEF AudioInv, BuffersHeld, Held, gameVars
<1> QED BY <1>2, <1>3, <1>4 DEF AudioInv, PosInBuffer

LEMMA StepAudio == AudioInv /\ [Next]_vars => AudioInv'
<1> SUFFICES ASSUME AudioInv, [Next]_vars PROVE AudioInv'
  OBVIOUS
<1>1. ASSUME audio_spec \/ PlayNothing PROVE AudioInv'
  <2>1. /\ device' \in Format
        /\ UNCHANGED <<sounds, arcs, generations, next_slot, cmds, callbackVars, ghostVars>>
    BY <1>1, Devices DEF audio_spec, PlayNothing, ensure_stream
  <2> QED BY <2>1 DEF AudioInv, AudioTypes, BuffersHeld, Held, PosInBuffer,
                      callbackVars, ghostVars
<1>2. ASSUME fill \/ UNCHANGED vars PROVE AudioInv'
  <2>1. UNCHANGED <<gameVars, cmds, voices, ghostVars>>
    BY <1>2 DEF fill, vars, callbackVars
  <2> QED BY <2>1 DEF AudioInv, AudioTypes, BuffersHeld, Held, PosInBuffer,
                      gameVars, ghostVars
<1> QED BY <1>1, <1>2, SoundStep, PlayStep, SendStep, DrainStep, MixStep
        DEF Next, Game, Callback

LEMMA AudioInvariant == Spec => []AudioInv
<1>1. Init => AudioInv
  BY InitAudio
<1>2. AudioInv /\ [Next]_vars => AudioInv'
  BY StepAudio
<1> QED BY <1>1, <1>2, PTL DEF Spec

(* Mixer::apply in the real-time callback drops an Arc without freeing the *)
(* buffer, for every pool, ring and registry.                              *)
THEOREM NothingFreedInCallback == Spec => []CallbackNeverFrees
<1>1. AudioInv => CallbackNeverFrees
  BY DEF AudioInv, BuffersHeld, CallbackNeverFrees
<1> QED BY <1>1, AudioInvariant, PTL

(* mix_sample's index into a voice's buffer is inside it, whatever was     *)
(* started, stolen, stopped or wrapped, at every device format.            *)
THEOREM MixerStaysInBuffer == Spec => []PosInBuffer
<1>1. AudioInv => PosInBuffer
  BY DEF AudioInv
<1> QED BY <1>1, AudioInvariant, PTL

-----------------------------------------------------------------------------
(* Resampling.  The source of an output sample is a sample of the sound:   *)
(* the last partial frame is cut off, and the source frame is clamped.     *)
LEMMA ResampleReads ==
    ASSUME NEW s \in Sound, NEW d \in Format, NEW j \in 1 .. Len(resample(s, d))
    PROVE  resample(s, d)[j] \subseteq 0 .. s.len - 1
<1> DEFINE src_ch     == s.channels
           dst_ch     == AtLeastOne(d.channels)
           src_frames == s.len \div src_ch
           dst_rate   == IF d.rate = 0 THEN s.rate ELSE d.rate
           dst_frames == (src_frames * dst_rate) \div s.rate
           n          == dst_frames * dst_ch
           sf(f)      == (f * s.rate) \div dst_rate
           frame(f)   == IF sf(f) < src_frames - 1 THEN sf(f) ELSE src_frames - 1
           base(i)    == frame((i - 1) \div dst_ch) * src_ch
           chan(i)    == (i - 1) % dst_ch
           reads(i)   == CASE dst_ch = src_ch                -> {base(i) + chan(i)}
                           [] dst_ch # src_ch /\ src_ch = 1  -> {base(i)}
                           [] dst_ch = 1 /\ src_ch > 1       -> base(i) .. base(i) + src_ch - 1
                           [] OTHER -> IF chan(i) < src_ch THEN {base(i) + chan(i)} ELSE {}
           out        == [i \in 1 .. n |-> reads(i)]
<1>1. resample(s, d) = out
  BY Zenon DEF resample
<1>2. /\ s.len \in Nat /\ src_ch \in Nat \ {0} /\ s.rate \in Nat \ {0}
      /\ dst_ch \in Nat \ {0} /\ dst_rate \in Nat \ {0}
  BY DEF Sound, Format, AtLeastOne
<1>3. src_frames \in Nat /\ src_frames * src_ch <= s.len
  <2> HIDE DEF src_ch
  <2> QED BY <1>2, RoundedDown
<1> HIDE DEF src_ch, dst_ch, src_frames, dst_rate
<1>4. src_frames * dst_rate \in Nat
  BY <1>2, <1>3, Z3
<1>5. dst_frames \in Nat
  BY <1>2, <1>4, Division
<1>6. src_frames = 0 => dst_frames = 0
  BY <1>2, Z3
<1> HIDE DEF dst_frames
<1>7. n \in Nat /\ (dst_frames = 0 => n = 0)
  BY <1>2, <1>5, Z3
<1>8. j \in 1 .. n
  <2>1. out \in Seq({reads(i) : i \in 1 .. n})
    <3> HIDE DEF n, reads
    <3> QED BY <1>7
  <2>2. Len(out) = n
    <3> HIDE DEF n, reads
    <3> QED BY <1>7
  <2> QED BY <1>1, <2>2
<1>9. src_frames # 0
  BY <1>6, <1>7, <1>8
<1>10. resample(s, d)[j] = reads(j)
  <2> HIDE DEF n, reads
  <2> QED BY <1>1, <1>8
<1>11. j - 1 \in Nat
  BY <1>7, <1>8
<1> DEFINE f == (j - 1) \div dst_ch
           y == frame(f)
           x == chan(j)
<1>12. f \in Nat /\ x \in 0 .. dst_ch - 1
  BY <1>2, <1>11, Division
<1> HIDE DEF f
<1>13. y \in 0 .. src_frames - 1
  <2>1. f * s.rate \in Nat
    BY <1>2, <1>12, Z3
  <2>2. sf(f) \in Nat
    BY <1>2, <2>1, Division
  <2> HIDE DEF sf
  <2> QED BY <1>3, <1>9, <2>2
<1>14. base(j) = y * src_ch
  BY DEF f
<1> HIDE DEF x, y, frame, base, chan
<1>15. ASSUME NEW c \in 0 .. src_ch - 1
       PROVE  y * src_ch + c \in 0 .. s.len - 1
  <2>1. IsCell(c, y, src_ch, src_frames)
    BY <1>2, <1>3, <1>13 DEF IsCell
  <2>2. y * src_ch + c \in 0 .. src_ch * src_frames - 1
    BY <2>1, RowMajor
  <2>3. src_ch * src_frames = src_frames * src_ch /\ src_ch * src_frames \in Nat
    BY <1>2, <1>3, Z3
  <2> DEFINE a == y * src_ch + c
             b == src_ch * src_frames
  <2>4. a \in 0 .. b - 1 /\ b \in Nat /\ b <= s.len
    BY <1>3, <2>2, <2>3
  <2> HIDE DEF a, b
  <2>5. a \in 0 .. s.len - 1
    BY <1>2, <2>4
  <2> QED BY <2>5 DEF a
<1>16. y * src_ch \in Nat
  BY <1>2, <1>13, Z3
<1> DEFINE at == y * src_ch
<1>17. base(j) = at /\ at \in Nat /\ \A c \in 0 .. src_ch - 1 : at + c \in 0 .. s.len - 1
  BY <1>14, <1>15, <1>16
<1>18. chan(j) = x
  BY DEF x
<1> HIDE DEF at
<1>19. CASE dst_ch = src_ch
  <2>1. reads(j) = {at + x}
    BY <1>17, <1>18, <1>19
  <2>2. x \in 0 .. src_ch - 1
    BY <1>12, <1>19
  <2> QED BY <1>10, <1>17, <2>1, <2>2
<1>20. CASE dst_ch # src_ch /\ src_ch = 1
  <2>1. reads(j) = {at}
    BY <1>17, <1>20
  <2>2. 0 \in 0 .. src_ch - 1 /\ at + 0 = at
    BY <1>17, <1>20
  <2>3. at \in 0 .. s.len - 1
    BY <1>17, <2>2
  <2> QED BY <1>10, <2>1, <2>3
<1>21. CASE dst_ch # src_ch /\ dst_ch = 1 /\ src_ch > 1
  <2>1. reads(j) = at .. at + src_ch - 1
    BY <1>17, <1>21
  <2>2. ASSUME NEW a \in at .. at + src_ch - 1 PROVE a \in 0 .. s.len - 1
    <3>1. a - at \in 0 .. src_ch - 1 /\ at + (a - at) = a
      BY <1>2, <1>17
    <3> QED BY <1>17, <3>1
  <2> QED BY <1>10, <2>1, <2>2
<1>22. CASE dst_ch # src_ch /\ src_ch # 1 /\ ~(dst_ch = 1 /\ src_ch > 1)
  <2>1. reads(j) = IF x < src_ch THEN {at + x} ELSE {}
    BY <1>17, <1>18, <1>22
  <2>2. x < src_ch => x \in 0 .. src_ch - 1
    BY <1>2, <1>12
  <2>3. CASE x < src_ch
    BY <1>10, <1>17, <2>1, <2>2, <2>3
  <2>4. CASE ~(x < src_ch)
    <3>1. reads(j) = {}
      BY <2>1, <2>4
    <3> QED BY <1>10, <3>1
  <2> QED BY <2>3, <2>4
<1> QED BY <1>2, <1>19, <1>20, <1>21, <1>22

(* resample never indexes past a sound's samples, for sounds that end in   *)
(* half a frame, too short for a device frame, and every pair of formats.  *)
THEOREM ResampleStaysInside == Spec => []ResampleInRange
<1>1. ASSUME AudioInv PROVE ResampleInRange
  <2> SUFFICES ASSUME NEW i \in 1 .. Len(sounds), NEW j \in 1 .. Len(resample(sounds[i], device))
               PROVE  resample(sounds[i], device)[j] \subseteq 0 .. sounds[i].len - 1
    BY DEF ResampleInRange
  <2>1. sounds[i] \in Sound /\ device \in Format
    BY <1>1, ElementOfSeq DEF AudioInv, AudioTypes
  <2> QED BY <2>1, ResampleReads
<1> QED BY <1>1, AudioInvariant, PTL

-----------------------------------------------------------------------------
(* The pool once the ring is drained.  What a command does to one voice:   *)
(* a Play replaces it, a Stop or a Tune changes it if it is still of the   *)
(* command's generation.                                                   *)
Hits(v, c) == v.generation = c.generation

Effect(v, c, w) ==
    /\ c.op = "play" => w = Started(c)
    /\ c.op # "play" =>
         /\ w.pcm = v.pcm /\ w.pos = v.pos /\ w.generation = v.generation /\ w.play = v.play
         /\ w.active = IF c.op = "stop" /\ Hits(v, c) THEN FALSE ELSE v.active
         /\ w.vol_q8 = IF c.op = "tune" /\ Hits(v, c) THEN c.vol_q8 ELSE v.vol_q8
         /\ w.pan_q8 = IF c.op = "tune" /\ Hits(v, c)
                       THEN IF c.pan_q8 < 255 THEN c.pan_q8 ELSE 255
                       ELSE v.pan_q8

LEMMA ApplyEffect ==
    ASSUME NEW pool \in [Slots -> Voice], NEW c \in Command
    PROVE  /\ c.slot \in Slots
           /\ \A s \in Slots : s # c.slot => apply(pool, c)[s] = pool[s]
           /\ Effect(pool[c.slot], c, apply(pool, c)[c.slot])
<1> DEFINE v == pool[c.slot]
<1>0. c.slot \in Slots /\ v \in Voice
  BY DEF Command, Plays, Stops, Tunes
<1>1. CASE c \in Plays
  <2>1. apply(pool, c) = [pool EXCEPT ![c.slot] = Started(c)] /\ c.op = "play"
    BY <1>1 DEF Plays, apply
  <2> QED BY <1>0, <2>1 DEF Effect
<1>2. CASE c \in Stops
  <2>1. c.op = "stop"
    BY <1>2 DEF Stops
  <2>2. CASE Hits(v, c)
    <3>1. apply(pool, c) = [pool EXCEPT ![c.slot].active = FALSE]
      BY <2>1, <2>2 DEF apply, Hits
    <3>2. apply(pool, c)[c.slot] = [v EXCEPT !.active = FALSE]
      BY <1>0, <3>1
    <3>3. \A s \in Slots : s # c.slot => apply(pool, c)[s] = pool[s]
      BY <3>1
    <3> QED BY <1>0, <2>1, <2>2, <3>2, <3>3 DEF Effect, Voice
  <2>3. CASE ~Hits(v, c)
    <3>1. apply(pool, c) = pool
      BY <2>1, <2>3 DEF apply, Hits
    <3> QED BY <1>0, <2>1, <2>3, <3>1 DEF Effect
  <2> QED BY <2>2, <2>3
<1>3. CASE c \in Tunes
  <2>1. c.op = "tune"
    BY <1>3 DEF Tunes
  <2>2. CASE Hits(v, c)
    <3> DEFINE p == IF c.pan_q8 < 255 THEN c.pan_q8 ELSE 255
    <3>1. apply(pool, c) = [pool EXCEPT ![c.slot].vol_q8 = c.vol_q8, ![c.slot].pan_q8 = p]
      BY <2>1, <2>2 DEF apply, Hits
    <3> HIDE DEF p
    <3>2. apply(pool, c)[c.slot] = [v EXCEPT !.vol_q8 = c.vol_q8, !.pan_q8 = p]
      BY <1>0, <3>1
    <3>3. \A s \in Slots : s # c.slot => apply(pool, c)[s] = pool[s]
      BY <3>1
    <3>4. Effect(v, c, apply(pool, c)[c.slot])
      BY <1>0, <2>1, <2>2, <3>2 DEF Effect, Voice, p
    <3> QED BY <1>0, <3>3, <3>4
  <2>3. CASE ~Hits(v, c)
    <3>1. apply(pool, c) = pool
      BY <2>1, <2>3 DEF apply, Hits
    <3> QED BY <1>0, <2>1, <2>3, <3>1 DEF Effect
  <2> QED BY <2>2, <2>3
<1> QED BY <1>1, <1>2, <1>3 DEF Command

(* f are the pools that applying the commands of q one by one goes through.*)
Drains(pool, q, f) == /\ f[0] = pool
                      /\ \A n \in 1 .. Len(q) : f[n] = apply(f[n - 1], q[n])

LEMMA DrainsExist ==
    ASSUME NEW pool \in [Slots -> Voice], NEW q \in Seq(Command)
    PROVE  \E f : Drains(pool, q, f)
<1> DEFINE S == [Slots -> Voice]
           step == [a \in Nat \X S |-> IF a[1] < Len(q) THEN apply(a[2], q[a[1] + 1]) ELSE a[2]]
<1>1. Len(q) \in Nat
  OBVIOUS
<1>2. step \in [Nat \X S -> S]
  <2>1. ASSUME NEW a \in Nat \X S, a[1] < Len(q) PROVE apply(a[2], q[a[1] + 1]) \in S
    <3>1. a[1] + 1 \in 1 .. Len(q) /\ a[2] \in S
      BY <1>1, <2>1
    <3>2. q[a[1] + 1] \in Command
      BY <3>1
    <3> QED BY <3>1, <3>2, Apply
  <2>2. \A a \in Nat \X S : a[2] \in S
    OBVIOUS
  <2> QED BY <2>1, <2>2
<1>3. \A n \in Nat, p \in S : n < Len(q) => step[<<n, p>>] = apply(p, q[n + 1])
  OBVIOUS
<1> HIDE DEF step
<1>4. PICK g : Steps(S, pool, step, g)
  BY <1>2, Recursion DEF Steppable
<1>5. g \in [Nat -> S] /\ g[0] = pool /\ \A n \in Nat : g[n + 1] = step[<<n, g[n]>>]
  BY <1>4 DEF Steps
<1>6. ASSUME NEW n \in 1 .. Len(q) PROVE g[n] = apply(g[n - 1], q[n])
  <2>1. n - 1 \in Nat /\ (n - 1) + 1 = n /\ n - 1 < Len(q)
    BY <1>1
  <2>2. g[(n - 1) + 1] = step[<<n - 1, g[n - 1]>>] /\ g[n - 1] \in S
    BY <1>5, <2>1
  <2>3. step[<<n - 1, g[n - 1]>>] = apply(g[n - 1], q[(n - 1) + 1])
    BY <1>3, <2>1, <2>2
  <2> QED BY <2>1, <2>2, <2>3
<1> QED BY <1>5, <1>6 DEF Drains

LEMMA DrainsUnique ==
    ASSUME NEW pool, NEW q, Len(q) \in Nat, NEW f, NEW g, Drains(pool, q, f), Drains(pool, q, g)
    PROVE  \A n \in 0 .. Len(q) : f[n] = g[n]
<1> DEFINE Equal == {n \in Nat : n <= Len(q) => f[n] = g[n]}
<1>1. 0 \in Equal
  BY DEF Drains
<1>2. ASSUME NEW n \in Equal PROVE n + 1 \in Equal
  <2>1. CASE n + 1 <= Len(q)
    <3>1. n + 1 \in 1 .. Len(q) /\ (n + 1) - 1 = n /\ f[n] = g[n]
      BY <2>1
    <3>2. f[n + 1] = apply(f[(n + 1) - 1], q[n + 1]) /\ g[n + 1] = apply(g[(n + 1) - 1], q[n + 1])
      BY <3>1 DEF Drains
    <3> QED BY <3>1, <3>2
  <2>2. CASE ~(n + 1 <= Len(q))
    BY <2>2
  <2> QED BY <2>1, <2>2
<1> HIDE DEF Equal
<1>3. Equal = Nat
  BY <1>1, <1>2, StepByStep DEF Equal
<1> QED BY <1>3 DEF Equal

LEMMA DrainsTypes ==
    ASSUME NEW pool \in [Slots -> Voice], NEW q \in Seq(Command), NEW f, Drains(pool, q, f)
    PROVE  \A n \in 0 .. Len(q) : f[n] \in [Slots -> Voice]
<1> DEFINE Good == {n \in Nat : n <= Len(q) => f[n] \in [Slots -> Voice]}
<1>0. Len(q) \in Nat
  OBVIOUS
<1>1. 0 \in Good
  BY DEF Drains
<1>2. ASSUME NEW n \in Good PROVE n + 1 \in Good
  <2>1. CASE n + 1 <= Len(q)
    <3>1. n + 1 \in 1 .. Len(q) /\ (n + 1) - 1 = n /\ f[n] \in [Slots -> Voice]
      BY <1>0, <2>1
    <3>2. f[n + 1] = apply(f[(n + 1) - 1], q[n + 1])
      BY <3>1 DEF Drains
    <3>3. q[n + 1] \in Command
      BY <3>1
    <3>4. apply(f[n], q[n + 1]) \in [Slots -> Voice]
      BY <3>1, <3>3, Apply
    <3> QED BY <3>1, <3>2, <3>4
  <2>2. CASE ~(n + 1 <= Len(q))
    BY <2>2
  <2> QED BY <2>1, <2>2
<1> HIDE DEF Good
<1>3. Good = Nat
  BY <1>1, <1>2, StepByStep DEF Good
<1> QED BY <1>0, <1>3 DEF Good

(* What DrainedBy computes. *)
LEMMA DrainedDrains ==
    ASSUME voices \in [Slots -> Voice], cmds \in Seq(Command)
    PROVE  Drains(voices, cmds, DrainedBy)
<1> DEFINE IsIt(f) == f = [n \in 0 .. Len(cmds) |-> IF n = 0 THEN voices ELSE apply(f[n - 1], cmds[n])]
<1>1. Len(cmds) \in Nat
  OBVIOUS
<1>2. PICK g : Drains(voices, cmds, g)
  BY DrainsExist
<1> DEFINE f == [n \in 0 .. Len(cmds) |-> g[n]]
<1>3. ASSUME NEW n \in 0 .. Len(cmds)
      PROVE  g[n] = IF n = 0 THEN voices ELSE apply(f[n - 1], cmds[n])
  <2>1. CASE n = 0
    BY <1>2, <2>1 DEF Drains
  <2>2. CASE n # 0
    <3>1. n \in 1 .. Len(cmds) /\ n - 1 \in 0 .. Len(cmds)
      BY <1>1, <2>2
    <3>2. g[n] = apply(g[n - 1], cmds[n]) /\ f[n - 1] = g[n - 1]
      BY <1>2, <3>1 DEF Drains
    <3> QED BY <2>2, <3>2
  <2> QED BY <2>1, <2>2
<1>4. IsIt(f)
  BY <1>3
<1> HIDE DEF f
<1>5. DrainedBy = CHOOSE h : IsIt(h)
  BY DEF DrainedBy
<1> HIDE DEF IsIt
<1>6. IsIt(DrainedBy)
  BY <1>4, <1>5
<1> DEFINE d == DrainedBy
<1>7. IsIt(d)
  BY <1>6
<1> HIDE DEF d
<1>8. \A n \in 0 .. Len(cmds) : d[n] = IF n = 0 THEN voices ELSE apply(d[n - 1], cmds[n])
  BY <1>7 DEF IsIt
<1>9. d[0] = voices /\ \A n \in 1 .. Len(cmds) : d[n] = apply(d[n - 1], cmds[n])
  BY <1>1, <1>8
<1> QED BY <1>9 DEF Drains, d

(* Draining the commands of q turns the pool into P.                       *)
DrainsTo(pool, q, P) == /\ pool \in [Slots -> Voice] /\ q \in Seq(Command)
                        /\ \E f : Drains(pool, q, f) /\ f[Len(q)] = P

LEMMA DrainsToVoices ==
    ASSUME NEW pool, NEW q, NEW P, DrainsTo(pool, q, P)
    PROVE  P \in [Slots -> Voice]
<1>1. PICK f : Drains(pool, q, f) /\ f[Len(q)] = P
  BY DEF DrainsTo
<1>2. pool \in [Slots -> Voice] /\ q \in Seq(Command) /\ Len(q) \in 0 .. Len(q)
  BY DEF DrainsTo
<1> QED BY <1>1, <1>2, DrainsTypes

(* A command sent is the last one applied.                                 *)
LEMMA DrainsAppended ==
    ASSUME NEW pool, NEW q, NEW P, DrainsTo(pool, q, P), NEW c \in Command
    PROVE  DrainsTo(pool, Append(q, c), apply(P, c))
<1>1. PICK f : Drains(pool, q, f) /\ f[Len(q)] = P
  BY DEF DrainsTo
<1>2. pool \in [Slots -> Voice] /\ q \in Seq(Command) /\ Len(q) \in Nat
  BY DEF DrainsTo
<1> DEFINE r == Append(q, c)
           n == Len(q)
<1>3. r \in Seq(Command) /\ Len(r) = n + 1 /\ r[n + 1] = c /\ \A i \in 1 .. n : r[i] = q[i]
  BY <1>2
<1> HIDE DEF r
<1>4. PICK g : Drains(pool, r, g)
  BY <1>2, <1>3, DrainsExist
<1>5. \A i \in 1 .. n : g[i] = apply(g[i - 1], q[i])
  <2>1. \A i \in 1 .. n : i \in 1 .. Len(r)
    BY <1>2, <1>3
  <2> QED BY <1>3, <1>4, <2>1 DEF Drains
<1>6. Drains(pool, q, g)
  BY <1>4, <1>5 DEF Drains
<1>7. g[n] = P
  <2>1. n \in 0 .. n
    BY <1>2
  <2> QED BY <1>1, <1>2, <1>6, <2>1, DrainsUnique
<1>8. g[n + 1] = apply(g[n], c)
  <2>1. n + 1 \in 1 .. Len(r) /\ (n + 1) - 1 = n
    BY <1>2, <1>3
  <2>2. g[n + 1] = apply(g[(n + 1) - 1], r[n + 1])
    BY <1>4, <2>1 DEF Drains
  <2> QED BY <1>3, <2>1, <2>2
<1>9. g[Len(r)] = apply(P, c)
  BY <1>3, <1>7, <1>8
<1>10. DrainsTo(pool, r, apply(P, c))
  BY <1>2, <1>3, <1>4, <1>9 DEF DrainsTo
<1> QED BY <1>10 DEF r

(* Applying the oldest command leaves the drained pool as it is.           *)
LEMMA DrainsHead ==
    ASSUME NEW pool, NEW q, NEW P, DrainsTo(pool, q, P), q # <<>>
    PROVE  DrainsTo(apply(pool, Head(q)), Tail(q), P)
<1>1. PICK f : Drains(pool, q, f) /\ f[Len(q)] = P
  BY DEF DrainsTo
<1>2. pool \in [Slots -> Voice] /\ q \in Seq(Command) /\ Len(q) \in Nat /\ Len(q) >= 1
  BY DEF DrainsTo
<1> DEFINE r == Tail(q)
           c == Head(q)
           g == [n \in Nat |-> f[n + 1]]
<1>3. /\ r \in Seq(Command) /\ Len(r) = Len(q) - 1 /\ c \in Command /\ c = q[1]
      /\ \A i \in 1 .. Len(q) - 1 : r[i] = q[i + 1]
  BY <1>2
<1> HIDE DEF r, c
<1>4. apply(pool, c) \in [Slots -> Voice]
  BY <1>2, <1>3, Apply
<1>5. g[0] = apply(pool, c)
  <2>1. 1 \in 1 .. Len(q) /\ 1 - 1 = 0 /\ 0 + 1 = 1
    BY <1>2
  <2>2. f[1] = apply(f[1 - 1], q[1]) /\ f[0] = pool
    BY <1>1, <2>1 DEF Drains
  <2>3. g[0] = f[0 + 1]
    OBVIOUS
  <2> QED BY <1>3, <2>1, <2>2, <2>3
<1>6. ASSUME NEW i \in 1 .. Len(r) PROVE g[i] = apply(g[i - 1], r[i])
  <2>1. i + 1 \in 1 .. Len(q) /\ (i + 1) - 1 = i /\ i \in Nat /\ i - 1 \in Nat /\ (i - 1) + 1 = i
        /\ i \in 1 .. Len(q) - 1
    BY <1>2, <1>3
  <2>2. f[i + 1] = apply(f[(i + 1) - 1], q[i + 1])
    BY <1>1, <2>1 DEF Drains
  <2>3. g[i] = f[i + 1] /\ g[i - 1] = f[(i - 1) + 1]
    BY <2>1
  <2> QED BY <1>3, <2>1, <2>2, <2>3
<1>7. g[Len(r)] = P
  <2>1. Len(r) \in Nat /\ Len(r) + 1 = Len(q)
    BY <1>2, <1>3
  <2>2. g[Len(r)] = f[Len(r) + 1]
    BY <2>1
  <2> QED BY <1>1, <2>1, <2>2
<1> HIDE DEF g
<1>8. Drains(apply(pool, c), r, g)
  BY <1>5, <1>6 DEF Drains
<1>9. DrainsTo(apply(pool, c), r, P)
  BY <1>3, <1>4, <1>7, <1>8 DEF DrainsTo
<1> QED BY <1>9 DEF r, c

LEMMA DrainsToDrained ==
    ASSUME NEW P, DrainsTo(voices, cmds, P)
    PROVE  Drained = P
<1>1. PICK f : Drains(voices, cmds, f) /\ f[Len(cmds)] = P
  BY DEF DrainsTo
<1>2. voices \in [Slots -> Voice] /\ cmds \in Seq(Command) /\ Len(cmds) \in Nat
      /\ Len(cmds) \in 0 .. Len(cmds)
  BY DEF DrainsTo
<1>3. Drains(voices, cmds, DrainedBy)
  BY <1>2, DrainedDrains
<1>4. DrainedBy[Len(cmds)] = f[Len(cmds)]
  BY <1>1, <1>2, <1>3, DrainsUnique
<1> QED BY <1>1, <1>4 DEF Drained

-----------------------------------------------------------------------------
(* An output slot that passes before the ring is drained: w is what became *)
(* of v.  It is the same voice, it has ended only at the end of its        *)
(* buffer, and it was inside the buffer if it is.                          *)
Follows(v, w) == /\ w.pcm = v.pcm /\ w.generation = v.generation /\ w.play = v.play
                 /\ w.vol_q8 = v.vol_q8 /\ w.pan_q8 = v.pan_q8
                 /\ w.active => v.active
                 /\ w.pos < w.pcm.len => v.pos < v.pcm.len
                 /\ ~w.active /\ w.pos < w.pcm.len => ~v.active

LEMMA AdvanceFollows ==
    ASSUME NEW v \in Voice, Reads(v) => v.pos < v.pcm.len
    PROVE  Follows(v, advance(v))
<1>0. v.pos \in Nat /\ v.pcm.len \in Nat /\ v.looping \in BOOLEAN /\ v.active \in BOOLEAN
  BY DEF Voice, Buffer
<1>1. CASE ~v.active
  <2>1. advance(v) = v
    BY <1>1 DEF advance
  <2> QED BY <2>1 DEF Follows
<1>2. CASE v.active /\ v.pcm.len = 0
  <2>1. advance(v) = [v EXCEPT !.active = FALSE]
    BY <1>2 DEF advance
  <2> QED BY <1>0, <1>2, <2>1 DEF Voice, Follows
<1>3. CASE v.active /\ v.pcm.len # 0 /\ v.pos + 1 < v.pcm.len
  <2>1. advance(v) = [v EXCEPT !.pos = v.pos + 1]
    BY <1>3 DEF advance
  <2> QED BY <1>0, <1>3, <2>1 DEF Voice, Follows
<1>4. CASE v.active /\ v.pcm.len # 0 /\ ~(v.pos + 1 < v.pcm.len)
  <2>1. v.pos < v.pcm.len
    BY <1>4 DEF Reads
  <2>2. advance(v) = [v EXCEPT !.pos = IF v.looping THEN 0 ELSE v.pos + 1,
                               !.active = v.looping]
    BY <1>4 DEF advance
  <2>3. ASSUME NEW n \in Nat, NEW on \in BOOLEAN, on \/ ~(n < v.pcm.len),
               advance(v) = [v EXCEPT !.pos = n, !.active = on]
        PROVE  Follows(v, advance(v))
    <3>1. /\ advance(v).pcm = v.pcm /\ advance(v).generation = v.generation
          /\ advance(v).play = v.play /\ advance(v).vol_q8 = v.vol_q8
          /\ advance(v).pan_q8 = v.pan_q8
          /\ advance(v).pos = n /\ advance(v).active = on
      BY <2>3 DEF Voice
    <3> QED BY <1>4, <2>1, <2>3, <3>1 DEF Follows
  <2>4. CASE v.looping = TRUE
    <3>1. advance(v) = [v EXCEPT !.pos = 0, !.active = TRUE]
      BY <2>2, <2>4
    <3> QED BY Zenon, <2>3, <3>1, 0 \in Nat, TRUE \in BOOLEAN
  <2>5. CASE v.looping = FALSE
    <3>1. advance(v) = [v EXCEPT !.pos = v.pos + 1, !.active = FALSE]
      BY <2>2, <2>5
    <3>2. v.pos + 1 \in Nat /\ ~(v.pos + 1 < v.pcm.len)
      BY <1>0, <1>4
    <3> QED BY Zenon, <2>3, <3>1, <3>2, FALSE \in BOOLEAN
  <2> QED BY <1>0, <2>4, <2>5
<1> QED BY <1>1, <1>2, <1>3, <1>4

LEMMA EffectFollows ==
    ASSUME NEW v, NEW w, NEW c, NEW x, NEW y,
           Follows(v, w), Effect(v, c, x), Effect(w, c, y)
    PROVE  Follows(x, y)
<1>1. CASE c.op = "play"
  <2>1. x = y
    BY <1>1 DEF Effect
  <2> QED BY <2>1 DEF Follows
<1>2. CASE c.op # "play"
  <2>1. Hits(v, c) <=> Hits(w, c)
    BY DEF Follows, Hits
  <2>2. CASE Hits(v, c)
    BY <1>2, <2>1, <2>2 DEF Effect, Follows
  <2>3. CASE ~Hits(v, c)
    BY <1>2, <2>1, <2>3 DEF Effect, Follows
  <2> QED BY <2>2, <2>3
<1> QED BY <1>1, <1>2

LEMMA ApplyFollows ==
    ASSUME NEW P \in [Slots -> Voice], NEW Q \in [Slots -> Voice], NEW c \in Command,
           \A s \in Slots : Follows(P[s], Q[s])
    PROVE  \A s \in Slots : Follows(apply(P, c)[s], apply(Q, c)[s])
<1> SUFFICES ASSUME NEW s \in Slots PROVE Follows(apply(P, c)[s], apply(Q, c)[s])
  OBVIOUS
<1>1. CASE s # c.slot
  BY <1>1, ApplyEffect
<1>2. CASE s = c.slot
  <2>1. Effect(P[s], c, apply(P, c)[s]) /\ Effect(Q[s], c, apply(Q, c)[s])
    BY <1>2, ApplyEffect
  <2> QED BY <2>1, EffectFollows
<1> QED BY <1>1, <1>2

LEMMA DrainsFollowing ==
    ASSUME NEW pool, NEW q, NEW P, DrainsTo(pool, q, P), NEW next \in [Slots -> Voice],
           \A s \in Slots : Follows(pool[s], next[s])
    PROVE  \E Q \in [Slots -> Voice] : /\ DrainsTo(next, q, Q)
                                        /\ \A s \in Slots : Follows(P[s], Q[s])
<1>1. PICK f : Drains(pool, q, f) /\ f[Len(q)] = P
  BY DEF DrainsTo
<1>2. pool \in [Slots -> Voice] /\ q \in Seq(Command) /\ Len(q) \in Nat
  BY DEF DrainsTo
<1>3. PICK g : Drains(next, q, g)
  BY <1>2, DrainsExist
<1>4. /\ \A n \in 0 .. Len(q) : f[n] \in [Slots -> Voice]
      /\ \A n \in 0 .. Len(q) : g[n] \in [Slots -> Voice]
  BY <1>1, <1>2, <1>3, DrainsTypes
<1> DEFINE Good == {n \in Nat : n <= Len(q) => \A s \in Slots : Follows(f[n][s], g[n][s])}
<1>5. 0 \in Good
  <2>1. f[0] = pool /\ g[0] = next
    BY <1>1, <1>3 DEF Drains
  <2> QED BY <2>1
<1>6. ASSUME NEW n \in Good PROVE n + 1 \in Good
  <2>1. CASE n + 1 <= Len(q)
    <3>1. n + 1 \in 1 .. Len(q) /\ (n + 1) - 1 = n /\ n \in 0 .. Len(q)
      BY <1>2, <2>1
    <3>2. f[n + 1] = apply(f[(n + 1) - 1], q[n + 1]) /\ g[n + 1] = apply(g[(n + 1) - 1], q[n + 1])
      BY <1>1, <1>3, <3>1 DEF Drains
    <3>3. q[n + 1] \in Command
      BY <1>2, <3>1
    <3>4. f[n] \in [Slots -> Voice] /\ g[n] \in [Slots -> Voice]
          /\ \A s \in Slots : Follows(f[n][s], g[n][s])
      BY <1>2, <1>4, <2>1, <3>1
    <3>5. \A s \in Slots : Follows(apply(f[n], q[n + 1])[s], apply(g[n], q[n + 1])[s])
      BY <3>3, <3>4, ApplyFollows
    <3>6. \A s \in Slots : Follows(f[n + 1][s], g[n + 1][s])
      BY <3>1, <3>2, <3>5
    <3> QED BY <3>6
  <2>2. CASE ~(n + 1 <= Len(q))
    BY <2>2
  <2> QED BY <2>1, <2>2
<1> HIDE DEF Good
<1>7. Good = Nat
  BY <1>5, <1>6, StepByStep DEF Good
<1>8. \A s \in Slots : Follows(P[s], g[Len(q)][s])
  BY <1>1, <1>2, <1>7 DEF Good
<1>9. g[Len(q)] \in [Slots -> Voice] /\ DrainsTo(next, q, g[Len(q)])
  BY <1>2, <1>3, <1>4 DEF DrainsTo
<1> QED BY <1>8, <1>9

-----------------------------------------------------------------------------
(* What the accepted commands ask of each play, and the voices of a pool   *)
(* as they have to be: a voice is of the generation its own id has, and    *)
(* carries what was asked of its play.                                     *)
Asked == [sent : BOOLEAN, vol_q8 : Nat, pan_q8 : Nat, stopped : BOOLEAN]

OwnVoice(s, v) ==
    v.play # 0 => /\ v.play \in 1 .. Len(plays)
                  /\ v.generation \in 0 .. GenMod - 1
                  /\ plays[v.play] = voice_id(s, v.generation)
                  /\ v.vol_q8 = board[v.play].vol_q8
                  /\ v.pan_q8 = board[v.play].pan_q8
                  /\ board[v.play].stopped => ~v.active
                  /\ ~v.active /\ v.pos < v.pcm.len => board[v.play].stopped

SlotOf(n) == (n - 1) % MAX_VOICES

Agrees(P) == \A s \in Slots : OwnVoice(s, P[s])
Latest(P) == \A n \in 1 .. Len(plays) :
               n > Len(plays) - MAX_VOICES /\ board[n].sent => P[SlotOf(n)].play = n

(* The properties speak of the drained pool, which no action names: it is  *)
(* carried along as the pool P that draining the ring leads to.            *)
Books == /\ board \in [PlayNos -> Asked]
         /\ Len(plays) <= MaxPlays
         /\ next_slot = Len(plays) % MAX_VOICES
DrainedInv == Books /\ \E P : DrainsTo(voices, cmds, P) /\ Agrees(P) /\ Latest(P)

LEMMA IdDecodes ==
    ASSUME NEW s \in Slots, NEW g \in 0 .. GenMod - 1
    PROVE  decode_voice(voice_id(s, g)) = [slot |-> s, generation |-> g]
<1>1. IsCell(s, g, MAX_VOICES, GenMod)
  BY MixerAssumption DEF IsCell, Slots
<1> DEFINE a == g * MAX_VOICES + s
<1>2. a % MAX_VOICES = s /\ a \div MAX_VOICES = g
  BY <1>1, RowMajor
<1>3. voice_id(s, g) = a + 1
  <2>1. g % GenMod = g
    BY MixerAssumption, Z3
  <2> QED BY <2>1 DEF voice_id
<1>4. a \in Nat
  <2>1. g \in Nat /\ MAX_VOICES \in Nat /\ s \in Nat
    BY MixerAssumption DEF Slots
  <2>2. g * MAX_VOICES \in Nat
    BY <2>1, Z3
  <2> QED BY <2>1, <2>2
<1> HIDE DEF a
<1>5. (a + 1) - 1 = a
  BY <1>4
<1> QED BY <1>2, <1>3, <1>5 DEF decode_voice

LEMMA DecodedId ==
    ASSUME NEW id \in Nat \ {0}, decode_voice(id).generation \in 0 .. GenMod - 1
    PROVE  voice_id(decode_voice(id).slot, decode_voice(id).generation) = id
<1> DEFINE a == id - 1
           g == a \div MAX_VOICES
           s == a % MAX_VOICES
<1>1. a \in Nat /\ a + 1 = id
  OBVIOUS
<1> HIDE DEF a
<1>2. g \in Nat /\ s \in 0 .. MAX_VOICES - 1 /\ a = g * MAX_VOICES + s
  BY <1>1, Division, MixerAssumption
<1>3. decode_voice(id).slot = s /\ decode_voice(id).generation = g
  BY DEF decode_voice, a
<1> HIDE DEF g, s
<1>4. g % GenMod = g
  <2>1. g \in 0 .. GenMod - 1
    BY <1>3
  <2> QED BY <2>1, MixerAssumption, Z3
<1>5. voice_id(s, g) = g * MAX_VOICES + s + 1
  BY <1>4 DEF voice_id
<1> QED BY <1>1, <1>2, <1>3, <1>5

(* The generation that a command carries tells a play's own voice from     *)
(* every other voice its slot ever has.                                    *)
LEMMA Addressed ==
    ASSUME AudioInv, NEW id \in Ids, NEW s \in Slots, NEW v, OwnVoice(s, v), v.play # 0
    PROVE  v.play \in PlaysOf(id) <=> /\ s = decode_voice(id).slot
                                      /\ v.generation = decode_voice(id).generation
<1>1. v.play \in PlaysOf(id) <=> voice_id(s, v.generation) = id
  BY DEF OwnVoice, PlaysOf
<1>2. v.generation \in 0 .. GenMod - 1
  BY DEF OwnVoice
<1>3. ASSUME voice_id(s, v.generation) = id
      PROVE  s = decode_voice(id).slot /\ v.generation = decode_voice(id).generation
  <2>1. decode_voice(id) = [slot |-> s, generation |-> v.generation]
    BY <1>2, <1>3, IdDecodes
  <2> QED BY <2>1
<1>4. ASSUME s = decode_voice(id).slot, v.generation = decode_voice(id).generation
      PROVE  voice_id(s, v.generation) = id
  <2>1. id \in Nat \ {0}
    BY Decoded
  <2> QED BY <1>2, <1>4, <2>1, DecodedId
<1> QED BY <1>1, <1>3, <1>4

(* Neighbouring plays get different slots. *)
LEMMA SlotsApart ==
    ASSUME NEW n \in Nat \ {0}, NEW m \in Nat \ {0}, n < m, m < n + MAX_VOICES
    PROVE  SlotOf(n) # SlotOf(m)
<1> DEFINE a == n - 1
           b == m - 1
<1>1. a \in Nat /\ b \in Nat /\ a < b /\ b < a + MAX_VOICES /\ MAX_VOICES \in Nat \ {0}
  BY MixerAssumption
<1>2. SlotOf(n) = a % MAX_VOICES /\ SlotOf(m) = b % MAX_VOICES
  BY DEF SlotOf
<1> HIDE DEF a, b
<1> DEFINE x == a \div MAX_VOICES
           y == b \div MAX_VOICES
           r == a % MAX_VOICES
           t == b % MAX_VOICES
<1>3. x \in Nat /\ r \in 0 .. MAX_VOICES - 1 /\ a = x * MAX_VOICES + r
  BY <1>1, Division
<1>4. y \in Nat /\ t \in 0 .. MAX_VOICES - 1 /\ b = y * MAX_VOICES + t
  BY <1>1, Division
<1> HIDE DEF x, y, r, t
<1> SUFFICES ASSUME r = t PROVE FALSE
  BY <1>2 DEF r, t
<1>5. CASE x < y
  <2>1. x * MAX_VOICES + MAX_VOICES <= y * MAX_VOICES
        /\ x * MAX_VOICES \in Nat /\ y * MAX_VOICES \in Nat
    BY <1>1, <1>3, <1>4, <1>5, Products
  <2> QED BY <1>1, <1>3, <1>4, <2>1
<1>6. CASE ~(x < y)
  <2>1. CASE x = y
    BY <1>1, <1>3, <1>4, <2>1
  <2>2. CASE y < x
    <3>1. y * MAX_VOICES + MAX_VOICES <= x * MAX_VOICES
          /\ x * MAX_VOICES \in Nat /\ y * MAX_VOICES \in Nat
      BY <1>1, <1>3, <1>4, <2>2, Products
    <3> QED BY <1>1, <1>3, <1>4, <3>1
  <2> QED BY <1>3, <1>4, <1>6, <2>1, <2>2
<1> QED BY <1>5, <1>6

LEMMA InitDrained == Init => DrainedInv
<1> SUFFICES ASSUME Init PROVE DrainedInv
  OBVIOUS
<1>1. idle \in Voice /\ Unsent \in Asked
  BY DEF idle, Voice, Buffer, NoBuffer, Center, Unsent, Asked
<1>2. Books
  <2>1. Len(plays) = 0 /\ next_slot = 0 /\ board \in [PlayNos -> Asked] /\ MaxPlays \in Nat
    BY <1>1, AudioAssumption DEF Init
  <2>2. 0 % MAX_VOICES = 0
    BY MixerAssumption
  <2> QED BY <2>1, <2>2 DEF Books
<1>3. voices \in [Slots -> Voice] /\ cmds = <<>> /\ cmds \in Seq(Command) /\ Len(cmds) = 0
  BY <1>1 DEF Init
<1>4. PICK P : P = voices
  OBVIOUS
<1>5. PICK f : Drains(voices, cmds, f)
  BY <1>3, DrainsExist
<1>6. DrainsTo(voices, cmds, P)
  <2>1. f[0] = voices
    BY <1>5 DEF Drains
  <2> QED BY <1>3, <1>4, <1>5, <2>1 DEF DrainsTo
<1>7. Agrees(P)
  BY <1>4 DEF Init, Agrees, OwnVoice, idle
<1>8. Latest(P)
  BY DEF Init, Latest
<1> QED BY <1>2, <1>6, <1>7, <1>8 DEF DrainedInv

(* Steps that send nothing and touch no voice. *)
LEMMA StillDrained ==
    ASSUME DrainedInv, UNCHANGED <<voices, cmds, plays, board, next_slot>>
    PROVE  DrainedInv'
<1>1. PICK P : DrainsTo(voices, cmds, P) /\ Agrees(P) /\ Latest(P)
  BY DEF DrainedInv
<1>2. DrainsTo(voices, cmds, P)' /\ Agrees(P)' /\ Latest(P)'
  BY <1>1 DEF Agrees, OwnVoice, Latest
<1>3. Books'
  BY DEF DrainedInv, Books
<1> QED BY <1>2, <1>3 DEF DrainedInv

LEMMA DrainKeeps == ASSUME DrainedInv, drain PROVE DrainedInv'
<1>1. PICK P : DrainsTo(voices, cmds, P) /\ Agrees(P) /\ Latest(P)
  BY DEF DrainedInv
<1>2. UNCHANGED <<plays, board, next_slot>> /\ cmds # <<>>
      /\ voices' = apply(voices, Head(cmds)) /\ cmds' = Tail(cmds)
  BY DEF drain, gameVars, ghostVars
<1>3. DrainsTo(apply(voices, Head(cmds)), Tail(cmds), P)
  BY <1>1, <1>2, DrainsHead
<1>4. DrainsTo(voices, cmds, P)'
  BY <1>2, <1>3
<1>5. Agrees(P)' /\ Latest(P)'
  BY <1>1, <1>2 DEF Agrees, OwnVoice, Latest
<1>6. Books'
  BY <1>2 DEF DrainedInv, Books
<1> QED BY <1>4, <1>5, <1>6 DEF DrainedInv

LEMMA MixKeeps == ASSUME AudioInv, DrainedInv, mix_sample PROVE DrainedInv'
<1>1. PICK P : DrainsTo(voices, cmds, P) /\ Agrees(P) /\ Latest(P)
  BY DEF DrainedInv
<1>2. UNCHANGED <<cmds, plays, board, next_slot>>
      /\ voices' = [s \in Slots |-> advance(voices[s])]
  BY DEF mix_sample, gameVars, ghostVars
<1>3. voices \in [Slots -> Voice]
  BY DEF AudioInv, AudioTypes
<1>4. ASSUME NEW s \in Slots
      PROVE  voices'[s] \in Voice /\ Follows(voices[s], voices'[s])
  <2>1. Reads(voices[s]) => voices[s].pos < voices[s].pcm.len
    BY DEF AudioInv, PosInBuffer
  <2>2. voices[s] \in Voice /\ voices'[s] = advance(voices[s])
    BY <1>2, <1>3
  <2> QED BY <2>1, <2>2, Advance, AdvanceFollows
<1>5. voices' \in [Slots -> Voice]
  BY <1>2, <1>4
<1>6. PICK Q \in [Slots -> Voice] : /\ DrainsTo(voices', cmds, Q)
                                    /\ \A s \in Slots : Follows(P[s], Q[s])
  BY <1>1, <1>4, <1>5, DrainsFollowing
<1>7. DrainsTo(voices, cmds, Q)'
  BY <1>2, <1>6
<1>8. Agrees(Q)'
  <2> SUFFICES ASSUME NEW s \in Slots PROVE OwnVoice(s, Q[s])'
    BY DEF Agrees
  <2>1. OwnVoice(s, P[s]) /\ Follows(P[s], Q[s])
    BY <1>1, <1>6 DEF Agrees
  <2> QED BY <1>2, <2>1 DEF OwnVoice, Follows
<1>9. Latest(Q)'
  <2> SUFFICES ASSUME NEW n \in 1 .. Len(plays), n > Len(plays) - MAX_VOICES, board[n].sent
               PROVE  Q[SlotOf(n)].play = n
    BY <1>2 DEF Latest
  <2>1. n - 1 \in Nat
    BY DEF AudioInv, AudioTypes
  <2>2. SlotOf(n) \in Slots
    BY <2>1, Division, MixerAssumption DEF SlotOf, Slots
  <2>3. P[SlotOf(n)].play = n
    BY <1>1 DEF Latest
  <2> QED BY <1>6, <2>2, <2>3 DEF Follows
<1>10. Books'
  BY <1>2 DEF DrainedInv, Books
<1> QED BY <1>7, <1>8, <1>9, <1>10 DEF DrainedInv

(* A stop or a tune: what it asks of the plays its id stands for reaches   *)
(* their voice, and no other voice hears of it.                            *)
Asks(b, c, e) ==
    /\ e.sent = b.sent
    /\ e.stopped = IF c.op = "stop" THEN TRUE ELSE b.stopped
    /\ e.vol_q8 = IF c.op = "tune" THEN c.vol_q8 ELSE b.vol_q8
    /\ e.pan_q8 = IF c.op = "tune" THEN IF c.pan_q8 < 255 THEN c.pan_q8 ELSE 255 ELSE b.pan_q8

LEMMA SendKeeps ==
    ASSUME AudioInv, DrainedInv, NEW id \in Ids, NEW c \in Stops \cup Tunes,
           c.slot = decode_voice(id).slot, c.generation = decode_voice(id).generation,
           cmds' = Append(cmds, c), UNCHANGED <<gameVars, callbackVars, plays>>,
           board' \in [PlayNos -> Asked],
           \A n \in PlayNos : IF n \in PlaysOf(id) THEN Asks(board[n], c, board'[n])
                              ELSE board'[n] = board[n]
    PROVE  DrainedInv'
<1>1. PICK P : DrainsTo(voices, cmds, P) /\ Agrees(P) /\ Latest(P)
  BY DEF DrainedInv
<1>2. UNCHANGED <<voices, plays, next_slot>>
  BY DEF gameVars, callbackVars
<1>3. P \in [Slots -> Voice] /\ c \in Command /\ c.op # "play"
  BY <1>1, DrainsToVoices DEF Command, Stops, Tunes
<1>4. PICK Q : Q = apply(P, c)
  OBVIOUS
<1>5. DrainsTo(voices, cmds, Q)'
  <2>1. DrainsTo(voices, Append(cmds, c), apply(P, c))
    BY <1>1, <1>3, DrainsAppended
  <2> QED BY <1>2, <1>4, <2>1
<1>6. /\ \A s \in Slots : s # c.slot => Q[s] = P[s]
      /\ Effect(P[c.slot], c, Q[c.slot])
  BY <1>3, <1>4, ApplyEffect
<1>7. \A n \in 1 .. Len(plays) : n \in PlayNos
  <2>1. Len(plays) \in Nat /\ MaxPlays \in Nat /\ Len(plays) <= MaxPlays
    BY AudioAssumption DEF AudioInv, AudioTypes, DrainedInv, Books
  <2> QED BY <2>1 DEF PlayNos
<1>8. \A n \in PlayNos : board'[n].sent = board[n].sent
  BY DEF Asks
<1>9. \A s \in Slots : Q[s].play = P[s].play
  BY <1>3, <1>6 DEF Effect
<1>10. Agrees(Q)'
  <2> SUFFICES ASSUME NEW s \in Slots, Q[s].play # 0 PROVE OwnVoice(s, Q[s])'
    BY DEF Agrees, OwnVoice
  <2>1. OwnVoice(s, P[s]) /\ P[s].play # 0 /\ P[s].play \in PlayNos
    BY <1>1, <1>7, <1>9 DEF Agrees, OwnVoice
  <2>2. P[s].play \in PlaysOf(id) <=> s = c.slot /\ Hits(P[s], c)
    BY <2>1, Addressed DEF Hits
  <2>3. CASE P[s].play \in PlaysOf(id)
    <3>1. Asks(board[P[s].play], c, board'[P[s].play]) /\ Effect(P[s], c, Q[s]) /\ Hits(P[s], c)
      BY <1>6, <2>1, <2>2, <2>3
    <3>2. c.op = "stop" \/ c.op = "tune"
      BY DEF Stops, Tunes
    <3>3. CASE c.op = "stop"
      <4>1. /\ Q[s].play = P[s].play /\ Q[s].generation = P[s].generation
            /\ Q[s].vol_q8 = P[s].vol_q8 /\ Q[s].pan_q8 = P[s].pan_q8 /\ Q[s].active = FALSE
        BY <3>1, <3>3 DEF Effect
      <4>2. /\ board'[P[s].play].stopped = TRUE
            /\ board'[P[s].play].vol_q8 = board[P[s].play].vol_q8
            /\ board'[P[s].play].pan_q8 = board[P[s].play].pan_q8
        BY <3>1, <3>3 DEF Asks
      <4> QED BY <1>2, <2>1, <4>1, <4>2 DEF OwnVoice
    <3>4. CASE c.op = "tune"
      <4> DEFINE p == IF c.pan_q8 < 255 THEN c.pan_q8 ELSE 255
      <4>1. /\ Q[s].play = P[s].play /\ Q[s].generation = P[s].generation
            /\ Q[s].pcm = P[s].pcm /\ Q[s].pos = P[s].pos
            /\ Q[s].vol_q8 = c.vol_q8 /\ Q[s].pan_q8 = p /\ Q[s].active = P[s].active
        BY <3>1, <3>4 DEF Effect
      <4>2. /\ board'[P[s].play].stopped = board[P[s].play].stopped
            /\ board'[P[s].play].vol_q8 = c.vol_q8
            /\ board'[P[s].play].pan_q8 = p
        BY <3>1, <3>4 DEF Asks
      <4> HIDE DEF p
      <4> QED BY <1>2, <2>1, <4>1, <4>2 DEF OwnVoice
    <3> QED BY <3>2, <3>3, <3>4
  <2>4. CASE P[s].play \notin PlaysOf(id)
    <3>1. board'[P[s].play] = board[P[s].play]
      BY <2>1, <2>4
    <3>2. /\ Q[s].play = P[s].play /\ Q[s].generation = P[s].generation
          /\ Q[s].pcm = P[s].pcm /\ Q[s].pos = P[s].pos /\ Q[s].active = P[s].active
          /\ Q[s].vol_q8 = P[s].vol_q8 /\ Q[s].pan_q8 = P[s].pan_q8
      BY <1>3, <1>6, <2>2, <2>4 DEF Effect
    <3> QED BY <1>2, <2>1, <3>1, <3>2 DEF OwnVoice
  <2> QED BY <2>3, <2>4
<1>11. Latest(Q)'
  <2> SUFFICES ASSUME NEW n \in 1 .. Len(plays), n > Len(plays) - MAX_VOICES, board'[n].sent
               PROVE  Q[SlotOf(n)].play = n
    BY <1>2 DEF Latest
  <2>1. n - 1 \in Nat
    BY DEF AudioInv, AudioTypes
  <2>2. SlotOf(n) \in Slots
    BY <2>1, Division, MixerAssumption DEF SlotOf, Slots
  <2>3. P[SlotOf(n)].play = n
    BY <1>1, <1>7, <1>8 DEF Latest
  <2> QED BY <1>9, <2>2, <2>3
<1>12. Books'
  BY <1>2 DEF DrainedInv, Books
<1> QED BY <1>5, <1>10, <1>11, <1>12 DEF DrainedInv

LEMMA StopKeeps == ASSUME AudioInv, DrainedInv, stop PROVE DrainedInv'
<1>1. PICK id \in Ids :
        /\ send_cmd(Stop(decode_voice(id)))
        /\ board' = [n \in PlayNos |-> IF Accepts /\ n \in PlaysOf(id)
                                       THEN [board[n] EXCEPT !.stopped = TRUE]
                                       ELSE board[n]]
  BY DEF stop
<1> DEFINE c == Stop(decode_voice(id))
<1>2. UNCHANGED <<gameVars, callbackVars, plays>>
  BY DEF stop
<1>3. board \in [PlayNos -> Asked]
  BY DEF DrainedInv, Books
<1>4. CASE Accepts
  <2>1. c \in Stops
    BY Decoded DEF Stop, Stops
  <2>2. c.slot = decode_voice(id).slot /\ c.generation = decode_voice(id).generation
        /\ c.op = "stop"
    BY DEF Stop
  <2>3. cmds' = Append(cmds, c)
    BY <1>1, <1>4 DEF send_cmd
  <2> HIDE DEF c
  <2>4. ASSUME NEW b \in Asked
        PROVE  LET e == [b EXCEPT !.stopped = TRUE] IN e \in Asked /\ Asks(b, c, e)
    BY <2>2 DEF Asked, Asks
  <2>5. ASSUME NEW n \in PlayNos
        PROVE  /\ board'[n] \in Asked
               /\ IF n \in PlaysOf(id) THEN Asks(board[n], c, board'[n])
                  ELSE board'[n] = board[n]
    <3>1. board[n] \in Asked
      BY <1>3
    <3>2. CASE n \in PlaysOf(id)
      <4>1. board'[n] = [board[n] EXCEPT !.stopped = TRUE]
        BY <1>1, <1>4, <3>2
      <4> QED BY <2>4, <3>1, <3>2, <4>1
    <3>3. CASE n \notin PlaysOf(id)
      <4>1. board'[n] = board[n]
        BY <1>1, <3>3
      <4> QED BY <3>1, <3>3, <4>1
    <3> QED BY <3>2, <3>3
  <2>6. board' \in [PlayNos -> Asked]
    BY <1>1, <2>5
  <2> QED BY <1>2, <2>1, <2>2, <2>3, <2>5, <2>6, SendKeeps
<1>5. CASE ~Accepts
  <2>1. UNCHANGED cmds
    BY <1>1, <1>5 DEF send_cmd
  <2>2. UNCHANGED board
    BY <1>1, <1>3, <1>5
  <2> QED BY <1>2, <2>1, <2>2, StillDrained DEF gameVars, callbackVars
<1> QED BY <1>4, <1>5

LEMMA TuneKeeps == ASSUME AudioInv, DrainedInv, tune PROVE DrainedInv'
<1>1. PICK id \in Ids, t \in Tunings :
        /\ send_cmd(Tune(decode_voice(id), t[1], t[2]))
        /\ board' = [n \in PlayNos |-> IF Accepts /\ n \in PlaysOf(id)
                                       THEN [board[n] EXCEPT !.vol_q8 = t[1],
                                               !.pan_q8 = IF t[2] < 255 THEN t[2] ELSE 255]
                                       ELSE board[n]]
  BY DEF tune
<1> DEFINE c == Tune(decode_voice(id), t[1], t[2])
           p == IF t[2] < 255 THEN t[2] ELSE 255
<1>2. UNCHANGED <<gameVars, callbackVars, plays>>
  BY DEF tune
<1>3. board \in [PlayNos -> Asked] /\ t[1] \in Nat /\ t[2] \in Nat /\ p \in Nat
  BY AudioAssumption DEF DrainedInv, Books
<1>4. CASE Accepts
  <2>1. c \in Tunes
    BY <1>3, Decoded DEF Tune, Tunes
  <2>2. c.slot = decode_voice(id).slot /\ c.generation = decode_voice(id).generation
        /\ c.op = "tune" /\ c.vol_q8 = t[1] /\ c.pan_q8 = t[2]
    BY DEF Tune
  <2>3. cmds' = Append(cmds, c)
    BY <1>1, <1>4 DEF send_cmd
  <2> HIDE DEF c
  <2>4. ASSUME NEW b \in Asked
        PROVE  LET e == [b EXCEPT !.vol_q8 = t[1], !.pan_q8 = p] IN e \in Asked /\ Asks(b, c, e)
    <3> DEFINE e == [b EXCEPT !.vol_q8 = t[1], !.pan_q8 = p]
               vol == t[1]
    <3>1. (IF c.pan_q8 < 255 THEN c.pan_q8 ELSE 255) = p /\ c.vol_q8 = vol /\ vol \in Nat
      BY <1>3, <2>2
    <3> HIDE DEF p, vol
    <3>2. e = [b EXCEPT !.vol_q8 = vol, !.pan_q8 = p]
      BY DEF vol
    <3>3. /\ e \in Asked /\ e.vol_q8 = vol /\ e.pan_q8 = p
          /\ e.sent = b.sent /\ e.stopped = b.stopped
      <4>1. PICK x \in Nat, y \in Nat : x = vol /\ y = p
        BY <1>3, <3>1
      <4>2. e = [b EXCEPT !.vol_q8 = x, !.pan_q8 = y]
        BY <3>2, <4>1
      <4> HIDE DEF e
      <4>3. /\ e \in Asked /\ e.vol_q8 = x /\ e.pan_q8 = y
            /\ e.sent = b.sent /\ e.stopped = b.stopped
        BY <4>2 DEF Asked
      <4> QED BY <4>1, <4>3
    <3> HIDE DEF e
    <3>4. Asks(b, c, e)
      BY <2>2, <3>1, <3>3 DEF Asks
    <3> QED BY <3>3, <3>4 DEF e, p
  <2>5. ASSUME NEW n \in PlayNos
        PROVE  /\ board'[n] \in Asked
               /\ IF n \in PlaysOf(id) THEN Asks(board[n], c, board'[n])
                  ELSE board'[n] = board[n]
    <3>1. board[n] \in Asked
      BY <1>3
    <3>2. CASE n \in PlaysOf(id)
      <4>1. board'[n] = [board[n] EXCEPT !.vol_q8 = t[1], !.pan_q8 = p]
        BY <1>1, <1>4, <3>2
      <4> HIDE DEF p
      <4> QED BY <2>4, <3>1, <3>2, <4>1
    <3>3. CASE n \notin PlaysOf(id)
      <4>1. board'[n] = board[n]
        BY <1>1, <3>3
      <4> QED BY <3>1, <3>3, <4>1
    <3> QED BY <3>2, <3>3
  <2>6. board' \in [PlayNos -> Asked]
    BY <1>1, <2>5
  <2> QED BY <1>2, <2>1, <2>2, <2>3, <2>5, <2>6, SendKeeps
<1>5. CASE ~Accepts
  <2>1. UNCHANGED cmds
    BY <1>1, <1>5 DEF send_cmd
  <2>2. UNCHANGED board
    BY <1>1, <1>3, <1>5
  <2> QED BY <1>2, <2>1, <2>2, StillDrained DEF gameVars, callbackVars
<1> QED BY <1>4, <1>5

LEMMA NextModulo ==
    ASSUME NEW a \in Nat, NEW m \in Nat \ {0}
    PROVE  ((a % m) + 1) % m = (a + 1) % m
<1> DEFINE d == a \div m
           r == a % m
<1>1. d \in Nat /\ r \in 0 .. m - 1 /\ a = d * m + r
  BY Division
<1> HIDE DEF d, r
<1> SUFFICES (r + 1) % m = (d * m + r + 1) % m
  BY <1>1 DEF r
<1>2. d * m \in Nat
  BY <1>1, Z3
<1>3. CASE r + 1 < m
  <2>1. IsCell(r + 1, d, m, d + 1)
    BY <1>1, <1>3 DEF IsCell
  <2>2. (d * m + (r + 1)) % m = r + 1
    BY <2>1, RowMajor
  <2>3. IsCell(r + 1, 0, m, 1)
    BY <1>1, <1>3 DEF IsCell
  <2>4. (0 * m + (r + 1)) % m = r + 1
    BY <2>3, RowMajor
  <2>5. 0 * m + (r + 1) = r + 1 /\ d * m + (r + 1) = d * m + r + 1
    BY <1>1, <1>2
  <2> QED BY <2>2, <2>4, <2>5
<1>4. CASE ~(r + 1 < m)
  <2>1. r + 1 = m
    BY <1>1, <1>4
  <2>2. IsCell(0, d + 1, m, d + 2) /\ IsCell(0, 1, m, 2)
    BY <1>1 DEF IsCell
  <2>3. ((d + 1) * m + 0) % m = 0 /\ (1 * m + 0) % m = 0
    BY <2>2, RowMajor
  <2>4. (d + 1) * m + 0 = d * m + r + 1 /\ 1 * m + 0 = r + 1
    BY <1>1, <2>1, Z3
  <2> QED BY <2>3, <2>4
<1> QED BY <1>3, <1>4

(* A play takes the oldest slot of the pool with a new generation: its     *)
(* voice is the latest of its slot, and no other voice is disturbed.       *)
LEMMA PlayKeeps == ASSUME AudioInv, DrainedInv, play PROVE DrainedInv'
<1>1. PICK P : DrainsTo(voices, cmds, P) /\ Agrees(P) /\ Latest(P)
  BY DEF DrainedInv
<1>2. PICK i \in 1 .. Len(sounds), looping \in BOOLEAN, vol_q8 \in Volumes :
        LET pcm == prepare(i, device')
            v   == alloc_voice
            n   == Len(plays) + 1
        IN /\ next_slot' = (v.slot + 1) % MAX_VOICES
           /\ send_cmd(Play(v.slot, v.generation, pcm, vol_q8, looping, n))
           /\ plays' = Append(plays, voice_id(v.slot, v.generation))
           /\ board' = [board EXCEPT ![n] = [sent |-> Accepts, vol_q8 |-> vol_q8,
                                             pan_q8 |-> Center, stopped |-> FALSE]]
  BY DEF play
<1> DEFINE n == Len(plays) + 1
           s == next_slot
           g == (generations[next_slot] + 1) % GenMod
           c == Play(s, g, prepare(i, device'), vol_q8, looping, n)
           e == [sent |-> Accepts, vol_q8 |-> vol_q8, pan_q8 |-> Center, stopped |-> FALSE]
<1>3. /\ next_slot' = (s + 1) % MAX_VOICES
      /\ cmds' = (IF Accepts THEN Append(cmds, c) ELSE cmds)
      /\ plays' = Append(plays, voice_id(s, g))
      /\ board' = [board EXCEPT ![n] = e]
      /\ UNCHANGED voices
  BY <1>2 DEF alloc_voice, send_cmd, play, callbackVars
<1>4. /\ c.op = "play" /\ c.slot = s
      /\ Started(c).play = n /\ Started(c).generation = g /\ Started(c).vol_q8 = vol_q8
      /\ Started(c).pan_q8 = Center /\ Started(c).active = TRUE
  BY DEF Play, Started
<1>5. /\ e.sent = Accepts /\ e.vol_q8 = vol_q8 /\ e.pan_q8 = Center /\ e.stopped = FALSE
      /\ e \in Asked
  BY AudioAssumption DEF Asked, Accepts, Center
<1>6. /\ Len(plays) \in Nat /\ n \in Nat /\ n = Len(plays) + 1 /\ Len(plays) < n /\ n <= MaxPlays /\ n \in PlayNos
      /\ MaxPlays \in Nat
  BY AudioAssumption DEF AudioInv, AudioTypes, play, PlayNos
<1>7. g \in 0 .. GenMod - 1 /\ s \in Slots
  <2>1. s \in Slots /\ generations[s] + 1 \in Nat
    BY DEF AudioInv, AudioTypes
  <2> DEFINE x == generations[s] + 1
  <2> HIDE DEF x
  <2>2. x % GenMod \in 0 .. GenMod - 1
    BY <2>1, Division, MixerAssumption DEF x
  <2> QED BY <2>1, <2>2 DEF x
<1>8. /\ Len(plays') = n /\ plays'[n] = voice_id(s, g)
      /\ \A m \in 1 .. Len(plays) : plays'[m] = plays[m]
      /\ board' \in [PlayNos -> Asked] /\ board'[n] = e
      /\ \A m \in 1 .. Len(plays) : board'[m] = board[m]
  <2>1. board \in [PlayNos -> Asked] /\ \A m \in 1 .. Len(plays) : m \in PlayNos /\ m # n
    BY <1>6 DEF DrainedInv, Books, PlayNos
  <2>2. plays \in Seq(Nat \ {0})
    BY DEF AudioInv, AudioTypes
  <2> DEFINE id == voice_id(s, g)
  <2> HIDE DEF e, id, s
  <2>3. /\ Len(plays') = n /\ plays'[n] = id
        /\ \A m \in 1 .. Len(plays) : plays'[m] = plays[m]
    BY <1>3, <2>2 DEF id
  <2> HIDE DEF n
  <2>4. /\ board' \in [PlayNos -> Asked] /\ board'[n] = e
        /\ \A m \in 1 .. Len(plays) : board'[m] = board[m]
    BY <1>3, <1>5, <1>6, <2>1
  <2> QED BY <2>3, <2>4 DEF id
<1>9. s = SlotOf(n)
  <2>1. n - 1 = Len(plays)
    BY <1>6
  <2> QED BY <2>1 DEF DrainedInv, Books, SlotOf
<1>10. Books'
  <2>1. next_slot' = n % MAX_VOICES
    <3> DEFINE a == Len(plays)
    <3>1. s = a % MAX_VOICES /\ a \in Nat /\ n = a + 1
      BY <1>6 DEF DrainedInv, Books
    <3> HIDE DEF a, n, s
    <3>2. (s + 1) % MAX_VOICES = n % MAX_VOICES
      BY <3>1, NextModulo, MixerAssumption
    <3> QED BY <1>3, <3>2
  <2> QED BY <1>6, <1>8, <2>1 DEF Books
<1> HIDE DEF c, e, g, n, s
<1>11. ASSUME NEW t \in Slots, NEW v, OwnVoice(t, v) PROVE OwnVoice(t, v)'
  BY <1>6, <1>8, <1>11 DEF OwnVoice
<1>12. P \in [Slots -> Voice]
  BY <1>1, DrainsToVoices
<1>13. ASSUME NEW m \in 1 .. Len(plays), m > n - MAX_VOICES
       PROVE  SlotOf(m) \in Slots /\ SlotOf(m) # s /\ m > Len(plays) - MAX_VOICES
  <2>1. m \in Nat \ {0} /\ n \in Nat \ {0} /\ m < n /\ m < n /\ n < m + MAX_VOICES
        /\ m - 1 \in Nat
    BY <1>6, <1>13, MixerAssumption
  <2>2. SlotOf(m) \in Slots
    BY <2>1, Division, MixerAssumption DEF SlotOf, Slots
  <2> QED BY <1>6, <1>9, <1>13, <2>1, <2>2, SlotsApart, MixerAssumption
<1>14. CASE Accepts
  <2>1. PICK Q : Q = apply(P, c)
    OBVIOUS
  <2>2. c \in Command
    <3>1. cmds \in Seq(Command) /\ cmds' \in Seq(Command)
      BY PlayStep DEF AudioInv, AudioTypes
    <3>2. cmds \in Seq(Command \cup {c})
      BY <3>1
    <3>3. cmds'[Len(cmds) + 1] = c /\ Len(cmds') = Len(cmds) + 1
      BY <1>3, <1>14, <3>2
    <3> QED BY <3>1, <3>3
  <2>3. DrainsTo(voices, cmds, Q)'
    <3>1. DrainsTo(voices, Append(cmds, c), apply(P, c))
      BY <1>1, <2>2, DrainsAppended
    <3> QED BY <1>3, <1>14, <2>1, <3>1
  <2>4. (\A t \in Slots : t # s => Q[t] = P[t]) /\ Q[s] = Started(c)
    BY <1>4, <1>12, <2>1, <2>2, ApplyEffect DEF Effect
  <2>5. Agrees(Q)'
    <3> SUFFICES ASSUME NEW t \in Slots PROVE OwnVoice(t, Q[t])'
      BY DEF Agrees
    <3>1. CASE t # s
      BY <1>1, <1>11, <2>4, <3>1 DEF Agrees
    <3>2. CASE t = s
      <4>1. n \in 1 .. Len(plays')
        BY <1>6, <1>8
      <4> QED BY <1>4, <1>5, <1>7, <1>8, <2>4, <3>2, <4>1 DEF OwnVoice
    <3> QED BY <3>1, <3>2
  <2>6. Latest(Q)'
    <3> SUFFICES ASSUME NEW m \in 1 .. Len(plays'), m > Len(plays') - MAX_VOICES, board'[m].sent
                 PROVE  Q[SlotOf(m)].play = m
      BY DEF Latest
    <3>1. CASE m = n
      BY <1>4, <1>9, <2>4, <3>1
    <3>2. CASE m # n
      <4>1. m \in 1 .. Len(plays) /\ m > n - MAX_VOICES
        BY <1>6, <1>8, <3>2
      <4>2. board[m].sent
        BY <1>8, <4>1
      <4>3. P[SlotOf(m)].play = m
        BY <1>1, <1>13, <4>1, <4>2 DEF Latest
      <4> QED BY <1>13, <2>4, <4>1, <4>3
    <3> QED BY <3>1, <3>2
  <2> QED BY <1>10, <2>3, <2>5, <2>6 DEF DrainedInv
<1>15. CASE ~Accepts
  <2>1. DrainsTo(voices, cmds, P)'
    BY <1>1, <1>3, <1>15
  <2>2. Agrees(P)'
    BY <1>1, <1>11 DEF Agrees
  <2>3. Latest(P)'
    <3> SUFFICES ASSUME NEW m \in 1 .. Len(plays'), m > Len(plays') - MAX_VOICES, board'[m].sent
                 PROVE  P[SlotOf(m)].play = m
      BY DEF Latest
    <3>1. m # n
      BY <1>5, <1>8, <1>15
    <3>2. m \in 1 .. Len(plays) /\ m > n - MAX_VOICES
      BY <1>6, <1>8, <3>1
    <3>3. board[m].sent
      BY <1>8, <3>2
    <3> QED BY <1>1, <1>13, <3>2, <3>3 DEF Latest
  <2> QED BY <1>10, <2>1, <2>2, <2>3 DEF DrainedInv
<1> QED BY <1>14, <1>15

LEMMA StepDrained == AudioInv /\ DrainedInv /\ [Next]_vars => DrainedInv'
<1> SUFFICES ASSUME AudioInv, DrainedInv, [Next]_vars PROVE DrainedInv'
  OBVIOUS
<1>1. ASSUME audio_spec \/ PlayNothing \/ sound \/ fill \/ UNCHANGED vars PROVE DrainedInv'
  <2>1. UNCHANGED <<voices, cmds, plays, board, next_slot>>
    BY <1>1 DEF audio_spec, PlayNothing, sound, fill, vars, gameVars, callbackVars, ghostVars
  <2> QED BY <2>1, StillDrained
<1> QED BY <1>1, PlayKeeps, StopKeeps, TuneKeeps, DrainKeeps, MixKeeps DEF Next, Game, Callback

LEMMA DrainedInvariant == Spec => []DrainedInv
<1>1. Init => DrainedInv
  BY InitDrained
<1>2. AudioInv /\ DrainedInv /\ [Next]_vars => DrainedInv'
  BY StepDrained
<1> QED BY <1>1, <1>2, AudioInvariant, PTL DEF Spec

(* Slots and generations stay invisible to the program: whatever the game  *)
(* thread sends and however the callback's slots fall between its pops,    *)
(* the drained pool has each voice as its own play's commands ask.         *)
THEOREM CommandsReach == Spec => []CommandsReachTheirVoice
<1>1. DrainedInv => CommandsReachTheirVoice
  <2> SUFFICES ASSUME DrainedInv PROVE CommandsReachTheirVoice
    OBVIOUS
  <2>1. PICK P : DrainsTo(voices, cmds, P) /\ Agrees(P)
    BY DEF DrainedInv
  <2>2. Drained = P
    BY <2>1, DrainsToDrained
  <2> QED BY <2>1, <2>2 DEF CommandsReachTheirVoice, Agrees, OwnVoice
<1> QED BY <1>1, DrainedInvariant, PTL

(* alloc_voice steals the oldest slot: each of the last MAX_VOICES plays   *)
(* whose command the ring accepted has a voice once the ring is drained.   *)
THEOREM StealsOldest == Spec => []OldestIsStolen
<1>1. AudioInv /\ DrainedInv => OldestIsStolen
  <2> SUFFICES ASSUME AudioInv, DrainedInv,
                      NEW n \in 1 .. Len(plays), n > Len(plays) - MAX_VOICES, board[n].sent
               PROVE  \E s \in Slots : Drained[s].play = n
    BY DEF OldestIsStolen
  <2>1. PICK P : DrainsTo(voices, cmds, P) /\ Latest(P)
    BY DEF DrainedInv
  <2>2. Drained = P
    BY <2>1, DrainsToDrained
  <2>3. n - 1 \in Nat
    BY DEF AudioInv, AudioTypes
  <2>4. SlotOf(n) \in Slots
    BY <2>3, Division, MixerAssumption DEF SlotOf, Slots
  <2> QED BY <2>1, <2>2, <2>4 DEF Latest
<1> QED BY <1>1, AudioInvariant, DrainedInvariant, PTL
=============================================================================
