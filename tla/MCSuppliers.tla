---------------------------- MODULE MCSuppliers ----------------------------
(* Instances of Suppliers for TLC: two suppliers, two names and sheets    *)
(* that name one of them twice, rename it, or hold rows to be refused.      *)
EXTENDS Suppliers

CONSTANTS c1, c2, acme, norte, blank, badCuit, broken, corrupt, i1, i2

row(cuit, legal, trade, extra) == [cuit |-> cuit, legal |-> legal, trade |-> trade, extra |-> extra]

MCCuits == {c1, c2}
MCNames == {acme, norte}

First == <<row(c1, acme, blank, {}), row(badCuit, acme, blank, {}), row(c2, acme, blank, {})>>
Renamed == <<row(c1, norte, acme, {}), row(c2, blank, acme, {}), row(c1, norte, blank, {})>>

AllSheets == {First, Renamed, broken, corrupt}
=============================================================================
