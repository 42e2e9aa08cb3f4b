-------------------------------- MODULE Wire --------------------------------
(***************************************************************************)
(* Records on the wire, as the encoders and decoders of iiod write and     *)
(* read them: a record is its size in bytes and a function from the offset *)
(* of a field to the field's value.  What is not put is zero.              *)
(***************************************************************************)
EXTENDS Integers, Sequences, TLC

Zero == [o \in {} |-> 0]
Get(p, o) == IF o \in DOMAIN p THEN p[o] ELSE 0
\* A field at an offset, and several, given as a function from offsets, put over a record.
Field(o, v) == [f \in {o} |-> v]
Put(p, fields) ==
    [o \in DOMAIN p \cup DOMAIN fields |-> IF o \in DOMAIN fields THEN fields[o] ELSE p[o]]
At(base, fields) == [o \in {base + f : f \in DOMAIN fields} |-> fields[o - base]]
\* Part of a record, from base on.
From(p, base, bytes) ==
    [o \in {f \in 0 .. bytes - 1 : base + f \in DOMAIN p} |-> p[base + o]]

\* A structure, and the offsets of its members in encoder and decoder.
Fill(layout, s) ==
    [o \in {layout[f] : f \in DOMAIN layout} |-> s[CHOOSE f \in DOMAIN layout : layout[f] = o]]
Read(layout, p) == [f \in DOMAIN layout |-> Get(p, layout[f])]

\* What a coder returns: an error, or what it has made.
Bad(ret) == [ret |-> ret]
Good(value) == [ret |-> "OK", value |-> value]
=============================================================================
