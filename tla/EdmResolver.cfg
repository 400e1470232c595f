\* Models of two schemas, whose types, collections and bindings cross between them.
SPECIFICATION Spec
CONSTANTS
    Person = Person
    Employee = Employee
    Address = Address
    Color = Color
    Hire = Hire
    Friends = Friends
    Boss = Boss
    Home = Home
    Tint = Tint
    Who = Who
    Return = Return
    People = People
    Staff = Staff
    Me = Me
    Edm = Edm
    Missing = Missing
    Nothing = Nothing
    Types = {Person, Employee, Address, Color, Hire}
    Labels = {Friends, Boss, Home, Tint, Who, Return}
    Sources = {People, Staff, Me}
    Documents <- MCDocuments
INVARIANTS TypesResolved BindingsAreRight
