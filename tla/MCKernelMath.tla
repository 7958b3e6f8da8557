---------------------------- MODULE MCKernelMath ----------------------------
(* Numbers at the edges of each word and of the ten decimal digits; 128    *)
(* banks of RAM less bank 0, what main.cpp installs, is <<127, 0>>.        *)
EXTENDS KernelMath

MCWords   == {0, 1, 9, 10, 127, 9999, 10000, 15258, 32767, 32768, 51712,
              58623, 59391, 65535}
MCNumbers == MCWords \X MCWords
=============================================================================
