SPECIFICATION FairSpec
CONSTANTS
    f1 = f1
    f2 = f2
    f3 = f3
    f4 = f4
    sha1 = sha1
    sha2 = sha2
    Services = {a}
    Clients = {c1, c2}
    Files = {f1, f4}
    Stamps = {sha1}
    NoFile = NoFile
    NoStamp = NoStamp
    NoClient = NoClient
    Stamp <- MCStamp
    Parses <- MCParses
    Rich <- MCRich
    Audited <- MCAllAudited
    Expect <- MCNoPins
PROPERTY RequestsAnswered
