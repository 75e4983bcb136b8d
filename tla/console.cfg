SPECIFICATION Spec
CONSTANTS
    bankA = bankA
    bankB = bankB
    analyst = analyst
    other = other
    Page = {p1}
    Persona = {analyst, other}
    PersonaTenant <- MCPersonaTenant
    Tenants = {bankA, bankB}
    NoTenant = NoTenant
    Run = {r1}
    NoId = NoId
    Nothing = Nothing
INVARIANTS
    TypeOK
    ShownIsForThePresser
    AnswersMatchTheStore
