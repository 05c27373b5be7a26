-------------------------- MODULE MCDeviceDatabase --------------------------
(* Finite instances of DeviceDatabase. *)
EXTENDS DeviceDatabase, TLC

Rec(id, sets) == [id |-> id, sets |-> sets, dated |-> TRUE]

Named(v) == [device_name |-> v]

Measured(v) == [device_name |-> v, temperature |-> v]

List(records) == [kind |-> "list", records |-> records]

Stated(v, status) == [device_name |-> v, status |-> status]

\* Files with a device twice, a record without an identifier, one that names
\* no required field or sets it to null, one without a status, one with a null
\* status, and one with a date that is none.
SomeFiles ==
    {NoFile, [kind |-> "malformed", records |-> <<>>],
     List(<<Rec("PLC-001", Measured(1)), Rec("PLC-002", Stated(1, 2))>>),
     List(<<Rec("PLC-001", Named(2)), Rec("PLC-001", Measured(1))>>),
     List(<<Rec(Null, Named(1)), Rec("PLC-002", [temperature |-> 2])>>),
     List(<<Rec("PLC-002", Named(2)), [Rec("PLC-001", Named(1)) EXCEPT !.dated = FALSE]>>),
     List(<<Rec("PLC-002", Named(1)), Rec("PLC-001", Measured(Null))>>),
     List(<<Rec("PLC-001", Stated(1, Null))>>)}
=============================================================================
