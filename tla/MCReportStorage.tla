-------------------------- MODULE MCReportStorage --------------------------
(***************************************************************************)
(* Instances of ReportStorage for TLC.                                     *)
(***************************************************************************)
EXTENDS ReportStorage

Three == {"one", "two", "three"}

(* The processes of a behaviour, each a role and whether it is keyed.      *)
Cast(stored, first, second, third, fault) ==
    [stored |-> stored,
     role |-> [one |-> first[1], two |-> second[1], three |-> third[1]],
     keyed |-> [one |-> first[2], two |-> second[2], three |-> third[2]],
     fault |-> fault]

Nil == <<"none", FALSE>>
OldUpload == <<"upload", FALSE>>
NewUpload == <<"upload", TRUE>>
OldRead == <<"read", FALSE>>
NewRead == <<"read", TRUE>>
Worker == <<"migrate", TRUE>>
OldDelete == <<"delete", FALSE>>
NewDelete == <<"delete", TRUE>>

(* Conversions, migration and deletes cross one another and activation.    *)
Crossing ==
    {Cast("original", OldRead, NewRead, Worker, "none"),
     Cast("original", OldRead, Worker, Worker, "none"),
     Cast("original", OldRead, OldDelete, Worker, "none"),
     Cast("original", OldRead, OldRead, OldDelete, "none"),
     Cast("both", NewRead, NewDelete, Worker, "none"),
     Cast("compressed", NewRead, NewDelete, Worker, "none")}

(* The same with a fault.                                                  *)
Faulty ==
    {Cast("original", NewRead, NewDelete, Worker, "put"),
     Cast("original", OldRead, NewDelete, Worker, "unlink"),
     Cast("original", NewRead, Nil, Worker, "crash"),
     Cast("both", OldRead, Nil, Worker, "crash")}

(* Uploads, their reconciliation and their cleanup.                        *)
Uploading ==
    {Cast("nothing", OldUpload, OldDelete, Worker, "none"),
     Cast("nothing", OldUpload, OldRead, Worker, "ack"),
     Cast("nothing", NewUpload, NewDelete, Worker, "ack"),
     Cast("nothing", OldUpload, NewDelete, Worker, "put"),
     Cast("nothing", NewUpload, NewDelete, Worker, "put"),
     Cast("nothing", OldUpload, NewRead, Worker, "crash")}

AllScenarios == Crossing \union Faulty \union Uploading

=============================================================================
