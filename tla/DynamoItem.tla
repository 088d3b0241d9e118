----------------------------- MODULE DynamoItem -----------------------------
(***************************************************************************)
(* Item (boto/dynamodb2/items.py): objects that hold the fields of one     *)
(* DynamoDB item, remember them as they were loaded or last saved, and     *)
(* save all of them, or those that have changed, on condition that what    *)
(* they remember is still there.                                           *)
(*                                                                         *)
(* The key of the item is in every object's data; keyed says whether it is *)
(* in its _orig_data too.                                                  *)
(***************************************************************************)
EXTENDS Integers

CONSTANTS Holder,     \* the Item objects, in any processes
          Field,      \* without the key
          Settable,   \* per field, what the user may set it to
          Missing,    \* a field that is not there
          Blank,      \* None, or another value that is not stored
          NoItem

ASSUME DynamoItemAssumption ==
    /\ Missing # Blank
    /\ \A f \in Field : Missing \notin Settable[f]

VARIABLES
    item,      \* at the service
    objects    \* per object: _data, _orig_data, and whether it is in step

itemVars == <<item, objects>>

Values == (UNION {Settable[f] : f \in Field}) \cup {Missing, Blank}

\* An item that is there is told from one that is not.
ASSUME NoItemAssumption == NoItem \notin [Field -> Values]

ItemTypeOK ==
    /\ item \in [Field -> Values \ {Blank}] \cup {NoItem}
    /\ objects \in [Holder -> [data : [Field -> Values], orig : [Field -> Values],
                               keyed : BOOLEAN,
                               in_step : BOOLEAN]]   \* history: nobody else has
                                                     \* written since it was made clean

NoFields == [f \in Field |-> Missing]

NewObject == [data |-> NoFields, orig |-> NoFields, keyed |-> FALSE, in_step |-> FALSE]

\* prepare_full leaves out what is not storable.
Stored(data) == [f \in Field |-> IF data[f] = Blank THEN Missing ELSE data[f]]

Attribute(f) == IF item = NoItem THEN Missing ELSE item[f]

Known(o) == {f \in Field : o.data[f] # Missing \/ o.orig[f] # Missing}

\* Fault: fields that are gone or blank are not among them.
AlteredWithoutDeletes(o) ==
    {f \in Field : o.data[f] # o.orig[f] /\ o.data[f] \notin {Missing, Blank}}

\* _determine_alterations.  A new field that is blank is none.
Altered(o) ==
    {f \in Field : /\ o.data[f] # o.orig[f]
                   /\ ~(o.orig[f] = Missing /\ o.data[f] = Blank)}

NeedsSave(o) == Altered(o) # {} \/ ~o.keyed

\* build_expects, as the service judges it.  A field that was saved blank is
\* expected to exist without a value, which is an error.
Expects(o, fields) ==
    \A f \in fields : o.orig[f] # Blank /\ Attribute(f) = o.orig[f]

\* Fault: save expects what partial_save does.
ExpectsAltered(o) == Expects(o, Altered(o)) /\ (item # NoItem <=> o.keyed)

\* The expectations of save: all fields and the key.
ExpectsAll(o) == Expects(o, Known(o)) /\ (item # NoItem <=> o.keyed)

MarkClean(o, step) == [o EXCEPT !.orig = o.data, !.keyed = TRUE, !.in_step = step]

\* The item is written; the objects that are not told of it are out of step.
Write(h, new, object) ==
    /\ item' = new
    /\ objects' = [x \in Holder |->
          IF x = h THEN object
          ELSE [objects[x] EXCEPT !.in_step = @ /\ new = item]]

\* The call succeeds; or it raises, though the item may have been written.
WriteOrRaise(h, new, step) ==
    \/ Write(h, new, MarkClean(objects[h], step))
    \/ Write(h, new, [objects[h] EXCEPT !.in_step = FALSE])

-----------------------------------------------------------------------------
\* Table.new_item, and Table.get_item.
NewItemObject(h) ==
    /\ objects' = [objects EXCEPT ![h] = NewObject]
    /\ UNCHANGED item

LoadItem(h) ==
    /\ item # NoItem
    /\ objects' = [objects EXCEPT ![h] =
                      [data |-> item, orig |-> item, keyed |-> TRUE, in_step |-> TRUE]]
    /\ UNCHANGED item

SetField(h) ==
    /\ \E f \in Field : \E v \in Settable[f] \cup {Missing} :
          objects' = [objects EXCEPT ![h].data[f] = v]
    /\ UNCHANGED item

Save(h) ==
    /\ NeedsSave(objects[h])
    /\ ExpectsAll(objects[h])
    /\ WriteOrRaise(h, Stored(objects[h].data), TRUE)

Overwrite(h) == WriteOrRaise(h, Stored(objects[h].data), TRUE)

\* Only what has changed is written, and expected; the key is not, so that an
\* item that is not there is made.
PartialSave(h) ==
    LET o == objects[h]
    IN  /\ NeedsSave(o)
        /\ Expects(o, Altered(o))
        /\ WriteOrRaise(h, [f \in Field |-> IF f \in Altered(o) THEN Stored(o.data)[f]
                                            ELSE Attribute(f)],
                        o.in_step \/ (item = NoItem /\ ~o.keyed))

\* delete leaves the object as it is.
DeleteItemOf(h) == Write(h, NoItem, [objects[h] EXCEPT !.in_step = FALSE])

ItemInit ==
    /\ item = NoItem
    /\ objects = [h \in Holder |-> NewObject]

ItemNext ==
    \E h \in Holder :
       \/ NewItemObject(h) \/ LoadItem(h) \/ SetField(h)
       \/ Save(h) \/ Overwrite(h) \/ PartialSave(h) \/ DeleteItemOf(h)

-----------------------------------------------------------------------------
(* Properties.                                                             *)

\* save and partial_save replace only values the object has seen: those that
\* other objects wrote since it was loaded stay, but for fields it does not
\* know, which save drops (items.py:117-151, 253-303, 369-458).
KeepsOthersWrites ==
    [][\A h \in Holder : Save(h) \/ PartialSave(h) =>
         \A f \in Field :
            Attribute(f) \notin {Missing, Attribute(f)'} =>
               \/ objects[h].orig[f] = Attribute(f)
               \/ f \notin Known(objects[h])]_itemVars

\* An object remembers the item as it is stored, through any saves, whole and
\* partial, as long as nobody else has written (items.py:182-198, 314-413).
InStep ==
    \A h \in Holder : objects[h].in_step => item = Stored(objects[h].orig)
=============================================================================
