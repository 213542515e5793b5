------------------------------- MODULE MCData -------------------------------
(* FilterService's queries and hideOrOmitDeep's data: all of the ones with *)
(* the first of the others, as neither depends on the other.               *)
EXTENDS Filter, HideOrOmit

MCUsers == {"u1", "u2"}
Name == <<"displayName">>
Email == <<"user", "email">>
UserName == <<"user", "username">>
MCConditions ==
    {Is(Name, "a"), Is(Name, "2024"), Is(Email, "a"), Is(UserName, "ab"), Is(<<"userId">>, "u1"),
     Has(CreatedAt, [gt |-> "2024", lte |-> "2025"]), Has(CreatedAt, [lte |-> "2024"]),
     Has(Name, [in |-> {"a", "2024"}]), Has(Name, [nin |-> {"ab"}]), Has(Name, [ne |-> "a"]),
     Has(Name, [like |-> "a"]), Has(Email, [gte |-> "ab"]), Has(Email, [lt |-> "ab"]),
     Has(Name, [regexp |-> "a"])}
MCSelects == {<<"id">>, Name, Email, UserName}
MCSorts == {Name, Email, UserName}

MCInit == Init /\ DataInit

NextQuery == Next /\ built = <<Null>> /\ UNCHANGED built

NextData == Grow /\ query = NoQuery /\ UNCHANGED <<query, search>>

DataSpec == MCInit /\ [][NextQuery \/ NextData]_<<query, search, built>>
=============================================================================
