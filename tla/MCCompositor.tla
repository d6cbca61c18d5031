----------------------------- MODULE MCCompositor -----------------------------
(***************************************************************************)
(* Small instances of Compositor: two logical sizes far enough apart that  *)
(* no window gives them one layout (and an empty frame) under a window     *)
(* that is resized; and two logical sizes that share a layout.             *)
(***************************************************************************)
EXTENDS Compositor

FarSizes == {<<2, 1>>, <<5, 1>>, <<0, 1>>}
TwoSizes == {<<3, 1>>, <<4, 1>>}
Windows  == {<<5, 2>>, <<1, 1>>, <<4, 3>>, <<4, 1>>, <<0, 0>>}
MCBoxes  == {<<-1, 0, 2, 1>>, <<1, 0, 2, 2>>}
MCTexture == <<2, 2>>
MCBlits  == {<<0, 0, 2, 2, 1, 0>>, <<-1, 1, 3, 2, 0, -1>>}
==============================================================================
