------------------------------ MODULE MCShipping -------------------------------
(***************************************************************************)
(* The environments Shipping is checked in.                                *)
(***************************************************************************)
EXTENDS Shipping

Calm == [embedded : BOOLEAN, torn : {FALSE}, failing : {FALSE}, early : {FALSE},
         deaf : {FALSE}]

\* Everything goes wrong at once: copies are torn or fail, the worker ticks at any
\* time, no archiver ever accepts.
Hopeless == [embedded : BOOLEAN, torn : {TRUE}, failing : {TRUE}, early : {TRUE},
             deaf : {TRUE}]

\* The worker may tick before segment 0 is staged.
Early == [embedded : {TRUE}, torn : {FALSE}, failing : {FALSE}, early : {TRUE},
          deaf : {FALSE}]

CalmOrHopeless == Calm \union Hopeless

================================================================================
