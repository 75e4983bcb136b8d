SPECIFICATION Spec
CONSTANTS
    Tenants = {bankA, bankB}
    NoTenant = NoTenant
    Absent = Absent
    Versions = {"2026.1"}
    Instruments = {fca}
    bankA = bankA
    bankB = bankB
    fca = fca
    Request = {r1, r2, r3}
    Wiring <- MCWiring
    Deployments <- MCDeployments
    HeaderSets <- MCHeaderSets
    Bodies = {bankB}
    PackFiles <- MCPackFiles
    Durable = FALSE
    Threads = 2
    MaxRestarts = 1
    MaxEdits = 1
    None = None
    Disk = Disk
SYMMETRY Requests
INVARIANTS
    TypeOK
    OneContainer
    AnsweredIsReadable
    PackIsSettled
    HostedDomainIsServed
CHECK_DEADLOCK FALSE
