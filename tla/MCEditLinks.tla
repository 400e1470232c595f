----------------------------- MODULE MCEditLinks -----------------------------
\* The part of the metadata of the service the tests run against
\* (tests/functional/codegen_tool_test/baseline/DefaultServiceModel.xml) where
\* containment, derived types, bindings and singletons meet, with two accounts
\* whose instruments have the same key.
EXTENDS EditLinks, TLC

MCTypes == {"Ns.Account", "Ns.Instrument", "Ns.CreditCard", "Ns.GiftCard", "Ns.Credit", "Ns.StoredPI", "Ns.Company", "Ns.Employee", "Ns.Statement"}

MCBase == [t \in MCTypes |-> IF t = "Ns.CreditCard" THEN "Ns.Instrument" ELSE None]

MCDeclared == [t \in MCTypes |->
    CASE t = "Ns.Account" -> {"MyInstruments", "MyGiftCard"}
      [] t = "Ns.Instrument" -> {"TheStoredPI", "BackupStoredPI", "BillingStatements"}
      [] t = "Ns.CreditCard" -> {"CreditRecords"}
      [] t = "Ns.Employee" -> {"Company"}
      [] t = "Ns.Company" -> {"Employees"}
      [] OTHER -> {}]

MCNavs ==
    "MyInstruments" :> [to |-> "Ns.Instrument", many |-> TRUE, contained |-> TRUE, bound |-> None]
    @@ "MyGiftCard" :> [to |-> "Ns.GiftCard", many |-> FALSE, contained |-> TRUE, bound |-> None]
    @@ "TheStoredPI" :> [to |-> "Ns.StoredPI", many |-> FALSE, contained |-> FALSE, bound |-> "StoredPIs"]
    @@ "BackupStoredPI" :> [to |-> "Ns.StoredPI", many |-> FALSE, contained |-> FALSE, bound |-> "DefaultStoredPI"]
    @@ "BillingStatements" :> [to |-> "Ns.Statement", many |-> TRUE, contained |-> TRUE, bound |-> None]
    @@ "CreditRecords" :> [to |-> "Ns.Credit", many |-> TRUE, contained |-> TRUE, bound |-> None]
    @@ "Company" :> [to |-> "Ns.Company", many |-> FALSE, contained |-> FALSE, bound |-> "Company"]
    @@ "Employees" :> [to |-> "Ns.Employee", many |-> TRUE, contained |-> FALSE, bound |-> None]

MCSets == "Accounts" :> "Ns.Account" @@ "StoredPIs" :> "Ns.StoredPI" @@ "Employees" :> "Ns.Employee"

MCSingletons == "DefaultStoredPI" :> "Ns.StoredPI" @@ "Company" :> "Ns.Company"

MCKeys == {"1", "2", "9"}

Account(k) == <<Seg("Accounts", k)>>
Instrument(a, k) == Append(Account(a), Seg("MyInstruments", k))

MCStore ==
    "account1" :> [type |-> "Ns.Account", at |-> Account("1"), key |-> "1",
                   refs |-> [MyInstruments |-> <<"card1", "plain1">>, MyGiftCard |-> <<"gift1">>]]
    @@ "account2" :> [type |-> "Ns.Account", at |-> Account("2"), key |-> "2",
                      refs |-> [MyInstruments |-> <<"card2">>, MyGiftCard |-> <<>>]]
    @@ "card1" :> [type |-> "Ns.CreditCard", at |-> Instrument("1", "1"), key |-> "1",
                   refs |-> [TheStoredPI |-> <<"stored">>, BackupStoredPI |-> <<>>, BillingStatements |-> <<>>,
                            CreditRecords |-> <<"credit">>]]
    @@ "plain1" :> [type |-> "Ns.Instrument", at |-> Instrument("1", "2"), key |-> "2",
                    refs |-> [TheStoredPI |-> <<>>, BackupStoredPI |-> <<"default">>, BillingStatements |-> <<"statement">>]]
    @@ "card2" :> [type |-> "Ns.CreditCard", at |-> Instrument("2", "1"), key |-> "1",
                   refs |-> [TheStoredPI |-> <<"stored">>, BackupStoredPI |-> <<"default">>, BillingStatements |-> <<>>,
                            CreditRecords |-> <<>>]]
    @@ "gift1" :> [type |-> "Ns.GiftCard", at |-> Append(Account("1"), Bare("MyGiftCard")), key |-> "1", refs |-> <<>>]
    @@ "credit" :> [type |-> "Ns.Credit", key |-> "1", refs |-> <<>>,
                    at |-> Instrument("1", "1") \o <<Bare("Ns.CreditCard"), Seg("CreditRecords", "1")>>]
    @@ "statement" :> [type |-> "Ns.Statement", key |-> "1", refs |-> <<>>,
                       at |-> Append(Instrument("1", "2"), Seg("BillingStatements", "1"))]
    @@ "stored" :> [type |-> "Ns.StoredPI", at |-> <<Seg("StoredPIs", "1")>>, key |-> "1", refs |-> <<>>]
    @@ "default" :> [type |-> "Ns.StoredPI", at |-> <<Bare("DefaultStoredPI")>>, key |-> "9", refs |-> <<>>]
    @@ "employee" :> [type |-> "Ns.Employee", at |-> <<Seg("Employees", "1")>>, key |-> "1", refs |-> [Company |-> <<"company">>]]
    @@ "company" :> [type |-> "Ns.Company", at |-> <<Bare("Company")>>, key |-> None, refs |-> [Employees |-> <<"employee">>]]
==============================================================================
