CONSTANTS
    Manifests <- MCManifests
    PathManifest <- MCPathManifest
    GitManifest <- MCGitManifest
    Published <- MCPublished
    Uploads <- MCUploads
    Regs = {1}
    MaxCmds = 3
    MaxEnv = 1
SPECIFICATION FairSpec
INVARIANTS TreesComplete GraphClosed LockStable
PROPERTY CommandEnds
CHECK_DEADLOCK FALSE
