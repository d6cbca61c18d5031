---------------------------- MODULE MCAudioOutput ----------------------------
(***************************************************************************)
(* A small instance of AudioOutput: a stereo sound at twice the device's   *)
(* rate that ends in half a frame, and a sound too short for one device    *)
(* frame.                                                                  *)
(***************************************************************************)
EXTENDS AudioOutput

MCShapes == {[len |-> 5, channels |-> 2, rate |-> 2],
             [len |-> 1, channels |-> 1, rate |-> 2]}
MCFormats == {[channels |-> 2, rate |-> 1]}
MCTunings == {<<2, 300>>}
==============================================================================
