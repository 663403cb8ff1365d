------------------------------ MODULE MCTypes ------------------------------
EXTENDS Types
T(kind, of) == Type(kind, "", of)
N(name) == Type("named", name, <<>>)
Tag(name, type) == Type("tagged", name, <<type>>)
Unit == T("unit", <<>>)
Whole == T("int", <<>>)
Either(a, b) == T("union", <<a, b>>)
Member(label, referenced, type) == [label |-> label, referenced |-> referenced, type |-> type]
Plain(type) == Member("", FALSE, type)
MemberTypes == {
    Whole, T("char", <<>>), N("A"), N("B"), N("C"), T("list", <<N("A")>>),
    T("map", <<N("B"), N("A")>>), T("group", <<Either(N("B"), Unit)>>)}
Bodies ==
    {<<Plain(type)>> : type \in MemberTypes \cup {
        Either(Tag("X", N("A")), Tag("Y", T("float", <<>>))),
        Either(N("B"), Tag("Error", Whole)), Either(N("B"), N("A")),
        Either(Tag("X", N("B")), Tag("X", Whole)), Either(Whole, Tag("X", N("B"))),
        Either(Tag("Error", N("A")), Unit), Tag("X", Whole),
        T("union", <<Tag("Y", T("bool", <<>>)), Tag("X", N("B")), Tag("Error", Whole)>>)}}
    \cup {<<Plain(T("char", <<>>)), Plain(type)>> : type \in MemberTypes}
    \cup {<<Member("x", FALSE, T("bool", <<>>)), Member("y", referenced, type)>> :
              referenced \in BOOLEAN, type \in MemberTypes}
    \cup {<<Member("x", FALSE, Whole), Member("x", FALSE, Whole)>>,
          <<Member("x", FALSE, Whole), Plain(Whole)>>,
          <<Member("x", FALSE, Either(Whole, Unit))>>,
          <<Member("x", FALSE, N("B")), Member("y", FALSE, T("char", <<>>)), Member("z", TRUE, N("A"))>>}
Declaration(name, body) == [name |-> name, members |-> body]
MCPrograms == {<<Declaration("A", a), Declaration("B", b)>> : a \in Bodies, b \in Bodies}
=============================================================================
